---- MODULE Spec2Model ----
(***************************************************************************)
(* State-machine model of the go-mcp session manager, the per-session     *)
(* outbox (State.sendChan under State.mu), the server dispatch gate       *)
(* (Server.receive) and the peer-call facade (callClient / callServer).   *)
(*                                                                         *)
(* Goroutines are modelled as threads; each thread runs one operation at  *)
(* a time, one atomic step of the Go code per action.  Operations on      *)
(* sync.Map, cmap and the atomics are single steps; a critical section    *)
(* under the exclusive side of State.mu is a single step, guarded by the  *)
(* lock being obtainable.                                                  *)
(***************************************************************************)
EXTENDS Integers, Sequences, FiniteSets, TLC

\* ---- bounds of the model -------------------------------------------------
MaxSessions == 1      \* number of sessions CreateSession may create
QueueCap == 2         \* capacity of sendChan (64 in the code, scaled down)
MaxCalls == 2         \* peer-call ids allocated per endpoint
MaxTime == 2          \* the clock runs from 0 to MaxTime
MaxFires == 3         \* firings of the GET loop's one-second timer
MaxPeers == 2         \* number of sessions a broadcast ranges over

Closers == {"c1", "c2"}       \* goroutines closing sessions (DELETE, sweep, shutdown)
Producers == {"p1"}           \* goroutines sending to a session (transport.Send)
Consumers == {"g1"}           \* GET stream handlers: open the outbox, then dequeue
Receivers == {"r1", "r2"}     \* transport goroutines handing inbound frames to receive
Callers == {"k1", "k2"}       \* goroutines calling the peer (handlers, the application)
Senders == {"p1", "p2"}       \* goroutines sending concurrently to one session
Sweepers == {"h1"}            \* the heartbeat goroutine
Shutters == {"s1"}            \* the goroutine calling Server.Shutdown
Waiters == {"w1"}             \* Shutdown's goroutine waiting on inFlyRequest
Runners == {"u1"}             \* the goroutine inside Server.Run
Hooks == {"f1"}               \* the goroutine http.Server starts for the shutdown hook
Registrars == {"b1"}          \* the application goroutine registering and notifying
Threads == Closers \cup Producers \cup Consumers \cup Receivers \cup Callers \cup Senders
               \cup Sweepers \cup Shutters \cup Waiters \cup Runners \cup Hooks
               \cup Registrars
Msgs == {"m1"}
FifoMsgs == {"f1", "f2", "f3"}   \* messages told apart, each sent once

NoSessionID == 0                          \* the empty session id ""
SessionIDs == 1..MaxSessions              \* ids uuid.NewString() hands out
UnknownSessionID == MaxSessions + 1       \* an id that is never created
PeerIDs == 1..MaxPeers                    \* the ids of the sessions of a broadcast

VARIABLES
    activeSessions,     \* Manager.activeSessions: the keys present
    closedSessions,     \* Manager.closedSessions: the keys present
    created,            \* ids CreateSession has returned so far
    closed,             \* State.closed, per session
    sendChan,           \* State.sendChan, per session: nil, or buffer + closed
    mu,                 \* State.mu, per session: readers holding, writer pending
    panicked,           \* a goroutine hit a send on / close of a closed channel
    ready,              \* State.ready, per session
    receivedInitRequest, \* State.receivedInitRequest, per session
    inShutdown,         \* Server.inShutdown
    inFlyRequest,       \* Server.inFlyRequest: the WaitGroup's counter
    side,               \* which program the peer-call facade runs in: server or client
    requestID,          \* State.requestID / Client.requestID, per endpoint
    reqID2respChan,     \* the pending-call map, per endpoint: the ids registered
    respChan,           \* the reply channels, per endpoint and id: their buffers
    delivered,          \* per endpoint and id: responses put into the reply channel
    clientReady,        \* Client.ready
    initializationMu,   \* Client.initializationMu: the goroutine holding it
    clock,              \* time.Now()
    lastActiveAt,       \* State.lastActiveAt, per session
    maxIdleTime,        \* Manager.maxIdleTime
    wgWaiters,          \* Server.inFlyRequest: the WaitGroup's waiter count
    wgSema,             \* Server.inFlyRequest: wake-ups released to the waiters
    drained,            \* serverCtx was cancelled by the waiter goroutine
    httpSvr,            \* the transport's httpSvr: "own", or "nil" (external handler)
    listener,           \* the HTTP listener of httpSvr: "", "listening", "closed"
    activeConns,        \* HTTP requests httpSvr is serving
    userDone,           \* the userCtx given to Shutdown is done
    tctx,               \* the transport's ctx is cancelled
    inFlySend,          \* the transport's inFlySend counter
    capabilities,       \* Server.capabilities
    registry,           \* Server.tools, prompts, resources, resourceTemplates
    subscribedResources,\* State.subscribedResources, per session
    stopHeartbeat,      \* Manager.stopHeartbeat: "open" or "closed"
    clientSessionID,    \* the streamable-HTTP client transport's sessionID
    sse,                \* the SSE client transport's channels: endpointChan, errChan, sseConnectClose
    enqueued,           \* history, per session: messages in the order their sends completed
    dequeued,           \* history, per session: messages in the order they were dequeued
    th                  \* the threads: program counter, arguments, result

dispVars == <<ready, receivedInitRequest, inShutdown, inFlyRequest>>
callVars == <<side, requestID, reqID2respChan, respChan, delivered, clientReady,
              initializationMu>>
cliVars == <<clientSessionID, sse>>
stopVars == <<stopHeartbeat>>
histVars == <<enqueued, dequeued, cliVars, stopVars>>
timeVars == <<clock, lastActiveAt, maxIdleTime>>
drainVars == <<wgWaiters, wgSema, drained>>
transVars == <<httpSvr, listener, activeConns, userDone, tctx, inFlySend>>
regVars == <<capabilities, registry, subscribedResources>>
shutVars == <<drainVars, transVars, regVars>>
vars == <<activeSessions, closedSessions, created, closed, sendChan, mu, panicked,
          dispVars, callVars, histVars, timeVars, shutVars, th>>

\* ---- per-session State -----------------------------------------------------
NilChan == [open |-> FALSE, buf |-> <<>>, closed |-> FALSE]
MakeChan == [open |-> TRUE, buf |-> <<>>, closed |-> FALSE]
FreeMu == [readers |-> 0, writer |-> ""]

\* No request id and no reply in hand.
NoID == [kind |-> "", str |-> "", pow |-> 0, off |-> 0]
NoReply == [id |-> NoID, kind |-> "", code |-> 0]

\* NewServer's capabilities, and capabilities without any of the flags.
DefaultCapabilities == [tools |-> TRUE, prompts |-> TRUE, resources |-> TRUE,
                        subscribe |-> TRUE]
NoCapabilities == [tools |-> FALSE, prompts |-> FALSE, resources |-> FALSE,
                   subscribe |-> FALSE]

\* No frame in hand.
NoFrame == [body |-> "", jsonrpc |-> "", id |-> "", method |-> ""]

Idle == [pc |-> "idle", sid |-> NoSessionID, msg |-> "", ctx |-> FALSE,
         res |-> "", todo |-> {}, ret |-> "", method |-> "", fid |-> 0, h |-> "",
         outer |-> 0, dup |-> FALSE, now |-> 0, seen |-> 0, tries |-> <<>>,
         frame |-> NoFrame, branch |-> "", wid |-> NoID, reply |-> NoReply,
         held |-> 0, snap |-> {}, sent |-> {}, errList |-> {}, rctx |-> "live",
         handshakes |-> 0, restored |-> FALSE]

\* NewSSEClientTransport: endpointChan and sseConnectClose are open, and Start's
\* errChan (capacity 1) is empty.
NewSSEClientTransport ==
    [endpointChan |-> "open", sseConnectClose |-> "open", errChan |-> <<>>]

Init ==
    /\ activeSessions = {}
    /\ closedSessions = {}
    /\ created = {}
    /\ closed = [s \in SessionIDs \cup PeerIDs |-> FALSE]
    /\ sendChan = [s \in SessionIDs \cup PeerIDs |-> NilChan]
    /\ mu = [s \in SessionIDs \cup PeerIDs |-> FreeMu]
    /\ panicked = FALSE
    /\ ready = [s \in SessionIDs \cup PeerIDs |-> FALSE]
    /\ receivedInitRequest = [s \in SessionIDs \cup PeerIDs |-> FALSE]
    /\ inShutdown = FALSE
    /\ inFlyRequest = 0
    /\ side = ""
    /\ requestID = [e \in {NoSessionID} \cup SessionIDs |-> 0]   \* NewState: requestID 0
    /\ reqID2respChan = [e \in {NoSessionID} \cup SessionIDs |-> {}]
    /\ respChan = [e \in {NoSessionID} \cup SessionIDs |-> [i \in 1..MaxCalls |-> <<>>]]
    /\ delivered = [e \in {NoSessionID} \cup SessionIDs |-> [i \in 1..MaxCalls |-> 0]]
    /\ clientReady = FALSE
    /\ initializationMu = ""
    /\ clock = 0
    /\ lastActiveAt = [s \in SessionIDs \cup PeerIDs |-> 0]
    /\ maxIdleTime = 0
    /\ wgWaiters = 0
    /\ wgSema = 0
    /\ drained = FALSE
    /\ httpSvr = ""
    /\ listener = ""
    /\ activeConns = 0
    /\ userDone = FALSE
    /\ tctx = FALSE
    /\ inFlySend = 0
    /\ enqueued = [s \in SessionIDs \cup PeerIDs |-> <<>>]
    /\ dequeued = [s \in SessionIDs \cup PeerIDs |-> <<>>]
    /\ th = [t \in Threads |-> Idle]
    /\ capabilities = DefaultCapabilities
    /\ clientSessionID = NoSessionID
    /\ sse = NewSSEClientTransport
    /\ stopHeartbeat = "open"
    /\ registry = {}
    /\ subscribedResources = [s \in SessionIDs \cup PeerIDs |-> {}]

\* ---- Manager: lookups ------------------------------------------------------
IsActiveSession(sessionID) == sessionID \in activeSessions
IsClosedSession(sessionID) == sessionID \in closedSessions
GetSession(sessionID) == sessionID # NoSessionID /\ sessionID \in activeSessions

\* ---- State.mu (sync.RWMutex) -----------------------------------------------
\* RLock succeeds only while no writer holds or waits for the lock.
MuCanRLock(m) == m.writer = ""
\* Lock first becomes the one pending writer, then waits for the readers.
MuCanAnnounce(m) == m.writer = ""
\* Mutant: the exclusive side does not wait for the readers to leave.
MuLockFreeIgnoringReaders(m) == TRUE
MuLockFree(m) == m.readers = 0

\* ---- Manager.CreateSession -------------------------------------------------
CreateSessionUpTo(max) ==
    /\ Cardinality(created) < max
    /\ LET sessionID == Cardinality(created) + 1 IN
        /\ created' = created \cup {sessionID}
        /\ activeSessions' = activeSessions \cup {sessionID}
        /\ closed' = [closed EXCEPT ![sessionID] = FALSE]
        /\ sendChan' = [sendChan EXCEPT ![sessionID] = NilChan]
        /\ mu' = [mu EXCEPT ![sessionID] = FreeMu]
        /\ ready' = [ready EXCEPT ![sessionID] = FALSE]
        /\ receivedInitRequest' = [receivedInitRequest EXCEPT ![sessionID] = FALSE]
        /\ lastActiveAt' = [lastActiveAt EXCEPT ![sessionID] = clock]
    /\ UNCHANGED <<clock, maxIdleTime, callVars, closedSessions, panicked, inShutdown,
                   inFlyRequest, th>>

CreateSession == CreateSessionUpTo(MaxSessions)

\* ---- Manager.CloseSession --------------------------------------------------
\* Mutant: the state is loaded, and the key is left in the map.
LoadWithoutDelete(t, sessionID, ret) ==
    IF sessionID \in activeSessions
    THEN /\ activeSessions' = activeSessions
         /\ th' = [th EXCEPT ![t] = [@ EXCEPT !.pc = "cs_lock", !.sid = sessionID, !.ret = ret]]
    ELSE /\ activeSessions' = activeSessions
         /\ th' = [th EXCEPT ![t] = [@ EXCEPT !.pc = ret, !.sid = sessionID, !.ret = ""]]

\* activeSessions.LoadAndDelete(sessionID); a miss returns at once.
LoadAndDelete(t, sessionID, ret) ==
    IF sessionID \in activeSessions
    THEN /\ activeSessions' = activeSessions \ {sessionID}
         /\ th' = [th EXCEPT ![t] = [@ EXCEPT !.pc = "cs_lock", !.sid = sessionID, !.ret = ret]]
    ELSE /\ activeSessions' = activeSessions
         /\ th' = [th EXCEPT ![t] = [@ EXCEPT !.pc = ret, !.sid = sessionID, !.ret = ""]]

CloseSession(t, sessionID) ==
    /\ th[t].pc = "idle"
    /\ LoadAndDelete(t, sessionID, "cs_done")
    /\ UNCHANGED <<timeVars, callVars, dispVars, closedSessions, created, closed, sendChan, mu, panicked>>

\* State.Close: s.mu.Lock() announces the writer ...
CloseLock(t) ==
    /\ th[t].pc = "cs_lock"
    /\ MuCanAnnounce(mu[th[t].sid])
    /\ mu' = [mu EXCEPT ![th[t].sid].writer = t]
    /\ th' = [th EXCEPT ![t].pc = "cs_close"]
    /\ UNCHANGED <<timeVars, callVars, dispVars, activeSessions, closedSessions, created, closed, sendChan, panicked>>

\* ... and, once the readers are gone: closed.Store(true); close(sendChan)
\* when it is not nil; Unlock.  Closing a closed channel panics.
StateClose(t) ==
    /\ th[t].pc = "cs_close"
    /\ LET s == th[t].sid IN
        /\ MuLockFree(mu[s])
        /\ closed' = [closed EXCEPT ![s] = TRUE]
        /\ sendChan' = [sendChan EXCEPT ![s].closed = sendChan[s].open]
        /\ panicked' = (panicked \/ (sendChan[s].open /\ sendChan[s].closed))
        /\ mu' = [mu EXCEPT ![s].writer = ""]
    /\ th' = [th EXCEPT ![t].pc = "cs_store"]
    /\ UNCHANGED <<timeVars, callVars, dispVars, activeSessions, closedSessions, created>>

\* closedSessions.Store(sessionID, struct{}{}), then CloseSession returns.
CloseStore(t) ==
    /\ th[t].pc = "cs_store"
    /\ closedSessions' = closedSessions \cup {th[t].sid}
    /\ th' = [th EXCEPT ![t] = [@ EXCEPT !.pc = th[t].ret, !.ret = ""]]
    /\ UNCHANGED <<timeVars, callVars, dispVars, activeSessions, created, closed, sendChan, mu, panicked>>

\* ---- Manager.CloseAllSessions ----------------------------------------------
\* activeSessions.Range over the keys present; CloseSession for each of them.
CloseAllSessions(t) ==
    /\ th[t].pc = "idle"
    /\ th' = [th EXCEPT ![t] = [@ EXCEPT !.pc = "ca_next", !.todo = activeSessions]]
    /\ UNCHANGED <<timeVars, callVars, dispVars, activeSessions, closedSessions, created, closed, sendChan, mu, panicked>>

CloseAllNext(t) ==
    /\ th[t].pc = "ca_next"
    /\ IF th[t].todo = {}
       THEN /\ th' = [th EXCEPT ![t] = [@ EXCEPT !.pc = "ca_done", !.sid = NoSessionID]]
            /\ UNCHANGED activeSessions
       ELSE \E s \in th[t].todo :
            IF s \in activeSessions
            THEN /\ activeSessions' = activeSessions \ {s}
                 /\ th' = [th EXCEPT ![t] = [@ EXCEPT !.pc = "cs_lock", !.sid = s,
                                                       !.ret = "ca_next", !.todo = @ \ {s}]]
            ELSE /\ activeSessions' = activeSessions
                 /\ th' = [th EXCEPT ![t] = [@ EXCEPT !.sid = s, !.todo = @ \ {s}]]
    /\ UNCHANGED <<timeVars, callVars, dispVars, closedSessions, created, closed, sendChan, mu, panicked>>

\* ---- Manager.OpenMessageQueueForSend / State.openMessageQueueForSend -------
OpenMessageQueueForSend(t, sessionID) ==
    /\ th[t].pc = "idle"
    /\ th' = [th EXCEPT ![t] = IF GetSession(sessionID)
                               THEN [@ EXCEPT !.pc = "open_lock", !.sid = sessionID]
                               ELSE [@ EXCEPT !.pc = "open_done", !.sid = sessionID,
                                              !.res = "ErrLackSession"]]
    /\ UNCHANGED <<timeVars, callVars, dispVars, activeSessions, closedSessions, created, closed, sendChan, mu, panicked>>

OpenLock(t) ==
    /\ th[t].pc = "open_lock"
    /\ MuCanAnnounce(mu[th[t].sid])
    /\ mu' = [mu EXCEPT ![th[t].sid].writer = t]
    /\ th' = [th EXCEPT ![t].pc = "open_make"]
    /\ UNCHANGED <<timeVars, callVars, dispVars, activeSessions, closedSessions, created, closed, sendChan, panicked>>

openMessageQueueForSend(t) ==
    /\ th[t].pc = "open_make"
    /\ LET s == th[t].sid IN
        /\ MuLockFree(mu[s])
        /\ sendChan' = [sendChan EXCEPT ![s] = IF @.open THEN @ ELSE MakeChan]
        /\ mu' = [mu EXCEPT ![s].writer = ""]
    /\ th' = [th EXCEPT ![t] = [@ EXCEPT !.pc = "open_done", !.res = "nil"]]
    /\ UNCHANGED <<timeVars, callVars, dispVars, activeSessions, closedSessions, created, closed, panicked>>

\* ---- Manager.EnqueueMessageForSend / State.enqueueMessage ------------------
EnqueueMessageForSend(t, sessionID, message, cancellable) ==
    /\ th[t].pc = "idle"
    /\ th' = [th EXCEPT ![t] = IF GetSession(sessionID)
                               THEN [@ EXCEPT !.pc = "enq_rlock", !.sid = sessionID,
                                              !.msg = message, !.ctx = cancellable]
                               ELSE [@ EXCEPT !.pc = "enq_done", !.sid = sessionID,
                                              !.msg = message, !.res = "ErrLackSession"]]
    /\ UNCHANGED <<timeVars, callVars, dispVars, activeSessions, closedSessions, created, closed, sendChan, mu, panicked>>

\* Mutant: the closed flag is not consulted before the select.
enqueueCheckWithoutClosed(isClosed, chan) ==
    IF ~chan.open THEN "ErrQueueNotOpened" ELSE "nil"

\* The two checks made under RLock before the select.
enqueueCheck(isClosed, chan) ==
    IF isClosed THEN "session already closed"
    ELSE IF ~chan.open THEN "ErrQueueNotOpened"
    ELSE "nil"

\* RLock; closed.Load(); sendChan == nil.  A failed check returns (RUnlock).
enqueueMessage(t) ==
    /\ th[t].pc = "enq_rlock"
    /\ LET s == th[t].sid
           e == enqueueCheck(closed[s], sendChan[s]) IN
        /\ MuCanRLock(mu[s])
        /\ IF e = "nil"
           THEN /\ mu' = [mu EXCEPT ![s].readers = @ + 1]
                /\ th' = [th EXCEPT ![t].pc = "enq_select"]
           ELSE /\ mu' = mu
                /\ th' = [th EXCEPT ![t] = [@ EXCEPT !.pc = "enq_done", !.res = e]]
    /\ UNCHANGED <<timeVars, callVars, dispVars, activeSessions, closedSessions, created, closed, sendChan, panicked>>

\* Mutant: a full buffer makes the send return at once, the message dropped.
enqueueSendDropping(t) ==
    /\ th[t].pc = "enq_select"
    /\ LET s == th[t].sid IN
        /\ sendChan' = [sendChan EXCEPT ![s].buf =
                IF Len(@) < QueueCap THEN Append(@, th[t].msg) ELSE @]
        /\ mu' = [mu EXCEPT ![s].readers = @ - 1]
    /\ th' = [th EXCEPT ![t] = [@ EXCEPT !.pc = "enq_done", !.res = "nil"]]
    /\ UNCHANGED <<timeVars, callVars, dispVars, activeSessions, closedSessions, created, closed, panicked>>

\* select { case s.sendChan <- message: ... }, then the deferred RUnlock.
\* The send needs room in the buffer; on a closed channel it panics.
enqueueSend(t) ==
    /\ th[t].pc = "enq_select"
    /\ LET s == th[t].sid IN
        /\ sendChan[s].closed \/ Len(sendChan[s].buf) < QueueCap
        /\ IF sendChan[s].closed
           THEN /\ panicked' = TRUE
                /\ sendChan' = sendChan
                /\ th' = [th EXCEPT ![t] = [@ EXCEPT !.pc = "enq_done", !.res = "panic"]]
           ELSE /\ panicked' = panicked
                /\ sendChan' = [sendChan EXCEPT ![s].buf = Append(@, th[t].msg)]
                /\ th' = [th EXCEPT ![t] = [@ EXCEPT !.pc = "enq_done", !.res = "nil"]]
        /\ mu' = [mu EXCEPT ![s].readers = @ - 1]
    /\ UNCHANGED <<timeVars, callVars, dispVars, activeSessions, closedSessions, created, closed>>

\* select { case <-ctx.Done(): return ctx.Err() }, then the deferred RUnlock.
enqueueCtxDone(t) ==
    /\ th[t].pc = "enq_select"
    /\ th[t].ctx
    /\ mu' = [mu EXCEPT ![th[t].sid].readers = @ - 1]
    /\ th' = [th EXCEPT ![t] = [@ EXCEPT !.pc = "enq_done", !.res = "ctx.Err"]]
    /\ UNCHANGED <<timeVars, callVars, dispVars, activeSessions, closedSessions, created, closed, sendChan, panicked>>

\* ---- Manager.DequeueMessageForSend / State.dequeueMessage ------------------
DequeueMessageForSend(t, sessionID, cancellable) ==
    /\ th[t].pc = "idle"
    /\ th' = [th EXCEPT ![t] = IF GetSession(sessionID)
                               THEN [@ EXCEPT !.pc = "deq_rlock", !.sid = sessionID,
                                              !.ctx = cancellable]
                               ELSE [@ EXCEPT !.pc = "deq_done", !.sid = sessionID,
                                              !.res = "ErrLackSession"]]
    /\ UNCHANGED <<timeVars, callVars, dispVars, activeSessions, closedSessions, created, closed, sendChan, mu, panicked>>

\* RLock; sendChan == nil; RUnlock.
dequeueMessage(t) ==
    /\ th[t].pc = "deq_rlock"
    /\ MuCanRLock(mu[th[t].sid])
    /\ th' = [th EXCEPT ![t] = IF sendChan[th[t].sid].open
                               THEN [@ EXCEPT !.pc = "deq_select"]
                               ELSE [@ EXCEPT !.pc = "deq_done", !.res = "ErrQueueNotOpened"]]
    /\ UNCHANGED <<timeVars, callVars, dispVars, activeSessions, closedSessions, created, closed, sendChan, mu, panicked>>

\* Mutant: the receive hands out the newest buffered message.
dequeueRecvNewest(t) ==
    /\ th[t].pc = "deq_select"
    /\ LET s == th[t].sid
           n == Len(sendChan[s].buf) IN
        /\ n > 0
        /\ sendChan' = [sendChan EXCEPT ![s].buf = SubSeq(@, 1, n - 1)]
        /\ th' = [th EXCEPT ![t] = [@ EXCEPT !.pc = "deq_done", !.res = "nil",
                                              !.msg = sendChan[s].buf[n]]]
    /\ UNCHANGED <<timeVars, callVars, dispVars, activeSessions, closedSessions, created, closed, mu, panicked>>

\* case msg, ok := <-s.sendChan: a buffered message, or EOF once the channel
\* is closed and empty.
dequeueRecv(t) ==
    /\ th[t].pc = "deq_select"
    /\ LET s == th[t].sid IN
        /\ sendChan[s].buf # <<>> \/ sendChan[s].closed
        /\ IF sendChan[s].buf # <<>>
           THEN /\ sendChan' = [sendChan EXCEPT ![s].buf = Tail(@)]
                /\ th' = [th EXCEPT ![t] = [@ EXCEPT !.pc = "deq_done", !.res = "nil",
                                                      !.msg = Head(sendChan[s].buf)]]
           ELSE /\ sendChan' = sendChan
                /\ th' = [th EXCEPT ![t] = [@ EXCEPT !.pc = "deq_done", !.res = "ErrSendEOF"]]
    /\ UNCHANGED <<timeVars, callVars, dispVars, activeSessions, closedSessions, created, closed, mu, panicked>>

dequeueCtxDone(t) ==
    /\ th[t].pc = "deq_select"
    /\ th[t].ctx
    /\ th' = [th EXCEPT ![t] = [@ EXCEPT !.pc = "deq_done", !.res = "ctx.Err"]]
    /\ UNCHANGED <<timeVars, callVars, dispVars, activeSessions, closedSessions, created, closed, sendChan, mu, panicked>>

\* ---- protocol methods ------------------------------------------------------
Initialize == "initialize"
Ping == "ping"
ToolsCall == "tools/call"
NotificationInitialized == "notifications/initialized"
NotificationCancelled == "notifications/cancelled"
\* The inbound frames drawn by the model: <<id, method>>, id 0 for no id.
RequestFrames == {<<1, Initialize>>, <<1, Ping>>, <<1, ToolsCall>>}
NotifyFrames == {<<0, NotificationInitialized>>, <<0, NotificationCancelled>>}

outVars == <<closed, sendChan, mu, panicked>>

\* ---- Server.receive --------------------------------------------------------
\* Mutant: the classifier tests "method" before "id".
classifyMethodFirst(fid, method) ==
    IF method = "" THEN "rcv_response"
    ELSE IF fid = 0 THEN "rcv_notify"
    ELSE "rcv_request"

\* A frame is its "id" (fid, 0 when the field is absent) and its "method"
\* ("" when absent).  No id: notification; no method: response; else request.
classify(fid, method) ==
    IF fid = 0 THEN "rcv_notify"
    ELSE IF method = "" THEN "rcv_response"
    ELSE "rcv_request"

\* The session check at the top of receive, then the three-way classifier.
receive(t, sessionID, fid, method) ==
    /\ th[t].pc = "idle"
    /\ th' = [th EXCEPT ![t] =
          IF sessionID # NoSessionID /\ ~IsActiveSession(sessionID)
          THEN [@ EXCEPT !.pc = "rcv_done", !.sid = sessionID, !.fid = fid, !.method = method,
                         !.res = IF IsClosedSession(sessionID) THEN "ErrSessionClosed"
                                 ELSE "ErrLackSession"]
          ELSE [@ EXCEPT !.pc = classify(fid, method), !.sid = sessionID, !.fid = fid,
                         !.method = method]]
    /\ UNCHANGED <<timeVars, callVars, activeSessions, closedSessions, created, outVars, dispVars>>

\* Mutant: the request path checks that the session exists, not that it is ready.
requestGateWithoutReady(sessionID, method) ==
    IF sessionID # NoSessionID /\ method # Initialize /\ method # Ping
    THEN IF ~GetSession(sessionID) THEN "ErrLackSession" ELSE "nil"
    ELSE "nil"

\* The readiness gate of the request path.
requestGate(sessionID, method) ==
    IF sessionID # NoSessionID /\ method # Initialize /\ method # Ping
    THEN IF ~GetSession(sessionID) THEN "ErrLackSession"
         ELSE IF ~ready[sessionID] THEN "ErrSessionHasNotInitialized"
         ELSE "nil"
    ELSE "nil"

\* Request path: gate; inFlyRequest.Add(1); the shutdown check (Done on
\* rejection); else the handler goroutine is spawned and the reply channel
\* returned to the transport, which waits for the one reply.
receiveGate(t) ==
    /\ th[t].pc = "rcv_request"
    /\ LET e == requestGate(th[t].sid, th[t].method) IN
        IF e # "nil"
        THEN /\ th' = [th EXCEPT ![t] = [@ EXCEPT !.pc = "rcv_done", !.res = e]]
             /\ UNCHANGED inFlyRequest
        ELSE IF inShutdown
        THEN /\ th' = [th EXCEPT ![t] = [@ EXCEPT !.pc = "rcv_done",
                                                   !.res = "server already shutdown"]]
             /\ UNCHANGED inFlyRequest
        ELSE /\ th' = [th EXCEPT ![t] = [@ EXCEPT !.pc = "rcv_wait", !.h = "running"]]
             /\ inFlyRequest' = inFlyRequest + 1
    /\ UNCHANGED <<timeVars, callVars, activeSessions, closedSessions, created, outVars, ready,
                   receivedInitRequest, inShutdown>>

\* handleRequestWithInitialize: the session named by the frame records the
\* initialize request; without a session id a stateful transport gets a new
\* session, which records it.  Undecodable parameters change nothing.
handleRequestWithInitialize(sessionID, paramsOK, stateful) ==
    IF ~paramsOK THEN UNCHANGED <<activeSessions, created, receivedInitRequest>>
    ELSE IF sessionID # NoSessionID
    THEN /\ receivedInitRequest' =
               IF GetSession(sessionID)
               THEN [receivedInitRequest EXCEPT ![sessionID] = TRUE]
               ELSE receivedInitRequest
         /\ UNCHANGED <<activeSessions, created>>
    ELSE IF stateful /\ Cardinality(created) < MaxSessions
    THEN LET new == Cardinality(created) + 1 IN
         /\ created' = created \cup {new}
         /\ activeSessions' = activeSessions \cup {new}
         /\ receivedInitRequest' = [receivedInitRequest EXCEPT ![new] = TRUE]
    ELSE UNCHANGED <<activeSessions, created, receivedInitRequest>>

\* receiveRequest: if request.Method != protocol.Ping { UpdateSessionLastActiveAt }
UpdatesLastActiveAt(method) == method # Ping

\* Manager.UpdateSessionLastActiveAt: a session that is not in activeSessions
\* is left alone.
UpdateSessionLastActiveAt(sessionID) ==
    IF sessionID \in activeSessions
    THEN [lastActiveAt EXCEPT ![sessionID] = clock]
    ELSE lastActiveAt

\* The handler goroutine: lastActiveAt, the method switch, the one reply
\* written to the channel, inFlyRequest.Done().  A session created by
\* initialize starts with lastActiveAt at the current time (NewState).
receiveRequest(t) ==
    /\ th[t].pc = "rcv_wait"
    /\ th[t].h = "running"
    /\ IF th[t].method = Initialize
       THEN \E paramsOK \in BOOLEAN, stateful \in BOOLEAN :
                handleRequestWithInitialize(th[t].sid, paramsOK, stateful)
       ELSE UNCHANGED <<activeSessions, created, receivedInitRequest>>
    /\ lastActiveAt' =
          LET upd == IF UpdatesLastActiveAt(th[t].method)
                     THEN UpdateSessionLastActiveAt(th[t].sid)
                     ELSE lastActiveAt IN
          [s \in DOMAIN lastActiveAt |-> IF s \in created' \ created THEN clock ELSE upd[s]]
    /\ th' = [th EXCEPT ![t].h = "replied"]
    /\ inFlyRequest' = inFlyRequest - 1
    /\ UNCHANGED <<clock, maxIdleTime, callVars, closedSessions, outVars, ready, inShutdown>>

\* The handler goroutine ends without a reply: a handler with user code
\* panics (pkg.Recover), or json.Marshal fails on its result.  lastActiveAt has
\* been updated; the deferred close(ch) and inFlyRequest.Done() run.
handlerFails(t) ==
    /\ th[t].pc = "rcv_wait"
    /\ th[t].h = "running"
    /\ th[t].method \notin {Initialize, Ping}
    /\ lastActiveAt' = UpdateSessionLastActiveAt(th[t].sid)
    /\ th' = [th EXCEPT ![t].h = "closed"]
    /\ inFlyRequest' = inFlyRequest - 1
    /\ UNCHANGED <<clock, maxIdleTime, callVars, activeSessions, closedSessions, created,
                   outVars, ready, receivedInitRequest, inShutdown>>

\* The transport receives from the channel and answers the peer: the reply
\* frame, or the zero value of a channel closed without one.
readReply(t) ==
    /\ th[t].pc = "rcv_wait"
    /\ th[t].h \notin {"", "running"}
    /\ th' = [th EXCEPT ![t] = [@ EXCEPT !.pc = "rcv_done",
                    !.res = IF th[t].h = "closed" THEN "no frame" ELSE "reply"]]
    /\ UNCHANGED <<timeVars, callVars, activeSessions, closedSessions, created, outVars, dispVars>>

\* The readiness gate of the notification path.
notifyGate(sessionID, method) ==
    IF sessionID # NoSessionID
    THEN IF ~GetSession(sessionID) THEN "ErrLackSession"
         ELSE IF method # NotificationInitialized /\ ~ready[sessionID]
              THEN "ErrSessionHasNotInitialized"
         ELSE "nil"
    ELSE "nil"

receiveNotify(t) ==
    /\ th[t].pc = "rcv_notify"
    /\ LET e == notifyGate(th[t].sid, th[t].method) IN
        th' = [th EXCEPT ![t] = IF e # "nil"
                                THEN [@ EXCEPT !.pc = "rcv_done", !.res = e]
                                ELSE [@ EXCEPT !.pc = "rcv_dispatch"]]
    /\ UNCHANGED <<timeVars, callVars, activeSessions, closedSessions, created, outVars, dispVars>>

\* Mutant: ready is set without looking at receivedInitRequest.
handleNotifyWithInitializedUnchecked(sessionID) ==
    IF sessionID = NoSessionID THEN "nil"
    ELSE IF ~GetSession(sessionID) THEN "ErrLackSession"
    ELSE "ready"

\* handleNotifyWithInitialized: ready is set only on a session that has
\* recorded an initialize request.
handleNotifyWithInitialized(sessionID) ==
    IF sessionID = NoSessionID THEN "nil"
    ELSE IF ~GetSession(sessionID) THEN "ErrLackSession"
    ELSE IF ~receivedInitRequest[sessionID] THEN "init request not received"
    ELSE "ready"

\* switch notify.Method: initialized is handled, any other method is not
\* supported.
notifyDispatch(t) ==
    /\ th[t].pc = "rcv_dispatch"
    /\ LET r == IF th[t].method = NotificationInitialized
                THEN handleNotifyWithInitialized(th[t].sid)
                ELSE "ErrMethodNotSupport" IN
        /\ ready' = IF r = "ready" THEN [ready EXCEPT ![th[t].sid] = TRUE] ELSE ready
        /\ th' = [th EXCEPT ![t] = [@ EXCEPT !.pc = "rcv_done",
                                              !.res = IF r = "ready" THEN "nil" ELSE r]]
    /\ UNCHANGED <<timeVars, callVars, activeSessions, closedSessions, created, outVars,
                   receivedInitRequest, inShutdown, inFlyRequest>>

\* Server.Shutdown, first statement: inShutdown.Store(true).
ShutdownBegin ==
    /\ ~inShutdown
    /\ inShutdown' = TRUE
    /\ UNCHANGED <<timeVars, callVars, activeSessions, closedSessions, created, outVars, ready,
                   receivedInitRequest, inFlyRequest, th>>

\* ---- Server.inFlyRequest (sync.WaitGroup) and the drain of Shutdown -----------
\* WaitGroup.Add(1): the counter goes up; Add panics when it raises the counter
\* from zero while a waiter is registered ("Add called concurrently with
\* Wait"), which can only be while a Done is releasing the waiters.
wgAddPanics == wgWaiters # 0 /\ inFlyRequest = 0

\* WaitGroup.Done: the counter goes down; the Done that brings it to zero with
\* waiters registered has to release them.
wgDoneReleases == inFlyRequest = 1 /\ wgWaiters # 0

\* Mutant: Wait returns without looking at the counter.
wgWaitReturnsAlways == TRUE

\* WaitGroup.Wait returns at once when the counter is zero.
wgWaitReturns == inFlyRequest = 0

\* A request frame without session id reaches Server.receive; dup records
\* whether Shutdown had set inShutdown before.
receiveDuring(t, method) ==
    /\ th[t].pc = "idle"
    /\ th' = [th EXCEPT ![t] = [@ EXCEPT !.pc = classify(1, method), !.sid = NoSessionID,
                                          !.fid = 1, !.method = method, !.dup = inShutdown]]
    /\ UNCHANGED <<timeVars, callVars, activeSessions, closedSessions, created, outVars,
                   dispVars, shutVars>>

\* receive, request branch: the readiness gate, then inFlyRequest.Add(1).
receiveAdd(t) ==
    /\ th[t].pc = "rcv_request"
    /\ LET e == requestGate(th[t].sid, th[t].method) IN
        IF e # "nil"
        THEN /\ th' = [th EXCEPT ![t] = [@ EXCEPT !.pc = "rcv_done", !.res = e]]
             /\ UNCHANGED inFlyRequest
        ELSE /\ inFlyRequest' = inFlyRequest + 1
             /\ th' = [th EXCEPT ![t] =
                    IF wgAddPanics
                    THEN [@ EXCEPT !.pc = "rcv_done", !.res = "panic", !.held = 1]
                    ELSE [@ EXCEPT !.pc = "rcv_check", !.held = 1]]
    /\ UNCHANGED <<timeVars, callVars, activeSessions, closedSessions, created, outVars, ready,
                   receivedInitRequest, inShutdown, shutVars>>

\* if server.inShutdown.Load() { inFlyRequest.Done(); return error }; else the
\* handler goroutine is spawned and the reply channel returned.
receiveCheck(t) ==
    /\ th[t].pc = "rcv_check"
    /\ IF inShutdown
       THEN /\ inFlyRequest' = inFlyRequest - 1
            /\ th' = [th EXCEPT ![t] =
                   IF wgDoneReleases
                   THEN [@ EXCEPT !.pc = "rcv_release", !.held = 0, !.seen = wgWaiters]
                   ELSE [@ EXCEPT !.pc = "rcv_done", !.held = 0,
                                  !.res = "server already shutdown"]]
       ELSE /\ th' = [th EXCEPT ![t] = [@ EXCEPT !.pc = "rcv_wait", !.h = "running"]]
            /\ UNCHANGED inFlyRequest
    /\ UNCHANGED <<timeVars, callVars, activeSessions, closedSessions, created, outVars, ready,
                   receivedInitRequest, inShutdown, shutVars>>

\* The second half of the Done that reached zero: the state must still be
\* what Done saw, else it panics; the waiters are reset and woken.
receiveRelease(t) ==
    /\ th[t].pc = "rcv_release"
    /\ IF inFlyRequest # 0 \/ wgWaiters # th[t].seen
       THEN /\ th' = [th EXCEPT ![t] = [@ EXCEPT !.pc = "rcv_done", !.res = "panic"]]
            /\ UNCHANGED <<wgWaiters, wgSema>>
       ELSE /\ th' = [th EXCEPT ![t] = [@ EXCEPT !.pc = "rcv_done",
                                                  !.res = "server already shutdown"]]
            /\ wgWaiters' = 0
            /\ wgSema' = wgSema + th[t].seen
    /\ UNCHANGED <<timeVars, callVars, activeSessions, closedSessions, created, outVars,
                   dispVars, drained>>

\* The handler goroutine: receiveRequest returns, the reply is marshalled and
\* written to the channel ...
handlerWrite(t) ==
    /\ th[t].pc = "rcv_wait"
    /\ th[t].h = "running"
    /\ th' = [th EXCEPT ![t].h = "written"]
    /\ UNCHANGED <<timeVars, callVars, activeSessions, closedSessions, created, outVars,
                   dispVars, shutVars>>

\* ... and its deferred calls run: close(ch), then inFlyRequest.Done().
handlerDone(t) ==
    /\ th[t].h = "written"
    /\ inFlyRequest' = inFlyRequest - 1
    /\ th' = [th EXCEPT ![t] = IF wgDoneReleases
                                THEN [@ EXCEPT !.h = "releasing", !.held = 0,
                                               !.seen = wgWaiters]
                                ELSE [@ EXCEPT !.h = "exited", !.held = 0]]
    /\ UNCHANGED <<timeVars, callVars, activeSessions, closedSessions, created, outVars, ready,
                   receivedInitRequest, inShutdown, shutVars>>

\* The second half of the handler's Done; a panic here ends in pkg.Recover.
handlerRelease(t) ==
    /\ th[t].h = "releasing"
    /\ IF inFlyRequest # 0 \/ wgWaiters # th[t].seen
       THEN /\ th' = [th EXCEPT ![t].h = "panicked"]
            /\ UNCHANGED <<wgWaiters, wgSema>>
       ELSE /\ th' = [th EXCEPT ![t].h = "exited"]
            /\ wgWaiters' = 0
            /\ wgSema' = wgSema + th[t].seen
    /\ UNCHANGED <<timeVars, callVars, activeSessions, closedSessions, created, outVars,
                   dispVars, drained>>

\* Shutdown's goroutine: server.inFlyRequest.Wait() registers as a waiter
\* unless the counter is zero.
waiterWait(t) ==
    /\ inShutdown
    /\ th[t].pc = "idle"
    /\ IF wgWaitReturns
       THEN /\ th' = [th EXCEPT ![t].pc = "w_cancel"]
            /\ UNCHANGED wgWaiters
       ELSE /\ th' = [th EXCEPT ![t].pc = "w_sema"]
            /\ wgWaiters' = wgWaiters + 1
    /\ UNCHANGED <<timeVars, callVars, activeSessions, closedSessions, created, outVars,
                   dispVars, wgSema, drained>>

\* The waiter is woken; Wait panics when the WaitGroup is in use again
\* ("reused before previous Wait has returned"), and pkg.Recover ends the
\* goroutine without cancel().
waiterWake(t) ==
    /\ th[t].pc = "w_sema"
    /\ wgSema > 0
    /\ wgSema' = wgSema - 1
    /\ th' = [th EXCEPT ![t].pc = IF inFlyRequest # 0 \/ wgWaiters # 0
                                   THEN "w_panicked" ELSE "w_cancel"]
    /\ UNCHANGED <<timeVars, callVars, activeSessions, closedSessions, created, outVars,
                   dispVars, wgWaiters, drained>>

\* cancel(): serverCtx is done.
waiterCancel(t) ==
    /\ th[t].pc = "w_cancel"
    /\ drained' = TRUE
    /\ th' = [th EXCEPT ![t].pc = "w_done"]
    /\ UNCHANGED <<timeVars, callVars, activeSessions, closedSessions, created, outVars,
                   dispVars, wgWaiters, wgSema>>

\* ---- the streamable HTTP transport: Run, Send and Shutdown --------------------
\* NewStreamableHTTPServerTransport builds its own http.Server;
\* NewStreamableHTTPServerTransportAndHandler leaves httpSvr nil.
NewTransport(mode) ==
    /\ httpSvr = ""
    /\ httpSvr' = mode
    /\ UNCHANGED <<listener, activeConns, userDone, tctx, inFlySend, drainVars, timeVars,
                   callVars, activeSessions, closedSessions, created, outVars, dispVars, th>>

\* Run: ListenAndServe on the own server, else <-t.ctx.Done().
Run(t) ==
    /\ th[t].pc = "idle"
    /\ httpSvr # "" /\ ~inShutdown
    /\ th' = [th EXCEPT ![t].pc = IF httpSvr = "own" THEN "run_serve" ELSE "run_wait"]
    /\ listener' = IF httpSvr = "own" THEN "listening" ELSE listener
    /\ UNCHANGED <<httpSvr, activeConns, userDone, tctx, inFlySend, drainVars, timeVars,
                   callVars, activeSessions, closedSessions, created, outVars, dispVars>>

\* ListenAndServe returns ErrServerClosed as soon as Shutdown has closed the
\* listener; the wait on t.ctx ends when it is cancelled.
RunReturn(t) ==
    /\ \/ th[t].pc = "run_serve" /\ listener = "closed"
          /\ th' = [th EXCEPT ![t] = [@ EXCEPT !.pc = "run_done",
                                                 !.res = "failed to start HTTP server"]]
       \/ th[t].pc = "run_wait" /\ tctx
          /\ th' = [th EXCEPT ![t] = [@ EXCEPT !.pc = "run_done", !.res = "nil"]]
    /\ UNCHANGED <<transVars, drainVars, timeVars, callVars, activeSessions, closedSessions,
                   created, outVars, dispVars>>

\* The own server accepts a request while it listens and serves it for a while.
httpRequestBegin ==
    /\ listener = "listening"
    /\ activeConns = 0
    /\ activeConns' = 1
    /\ UNCHANGED <<httpSvr, listener, userDone, tctx, inFlySend, drainVars, timeVars,
                   callVars, activeSessions, closedSessions, created, outVars, dispVars, th>>

httpRequestEnd ==
    /\ activeConns > 0
    /\ activeConns' = activeConns - 1
    /\ UNCHANGED <<httpSvr, listener, userDone, tctx, inFlySend, drainVars, timeVars,
                   callVars, activeSessions, closedSessions, created, outVars, dispVars, th>>

\* transport.Send: inFlySend.Add(1); select on t.ctx.Done(), default
\* EnqueueMessageForSend with the caller's ctx.
Send(t, sessionID, msg, cancellable) ==
    /\ inFlySend' = inFlySend + 1
    /\ IF tctx
       THEN /\ th[t].pc = "idle"
            /\ th' = [th EXCEPT ![t] = [@ EXCEPT !.pc = "enq_done", !.sid = sessionID,
                                                   !.msg = msg, !.res = "context canceled"]]
            /\ UNCHANGED <<timeVars, callVars, dispVars, activeSessions, closedSessions,
                           created, closed, sendChan, mu, panicked>>
       ELSE EnqueueMessageForSend(t, sessionID, msg, cancellable)
    /\ UNCHANGED <<httpSvr, listener, activeConns, userDone, tctx, drainVars>>

\* defer t.inFlySend.Done(), and Send returns.
SendReturn(t) ==
    /\ th[t].pc = "enq_done"
    /\ inFlySend' = inFlySend - 1
    /\ th' = [th EXCEPT ![t] = Idle]
    /\ UNCHANGED <<httpSvr, listener, activeConns, userDone, tctx, drainVars, timeVars,
                   callVars, activeSessions, closedSessions, created, outVars, dispVars>>

\* Server.Shutdown: inShutdown.Store(true); serverCtx is derived from userCtx;
\* the waiter goroutine is started; then transport.Shutdown is called.
Shutdown(t) ==
    /\ th[t].pc = "idle"
    /\ httpSvr # "" /\ ~inShutdown
    /\ \A u \in Runners : th[u].pc # "idle"
    /\ inShutdown' = TRUE
    /\ th' = [th EXCEPT ![t].pc = "sd_transport"]
    /\ UNCHANGED <<transVars, drainVars, timeVars, callVars, activeSessions, closedSessions,
                   created, outVars, ready, receivedInitRequest, inFlyRequest>>

\* The caller's context completes.
UserCtxDone ==
    /\ inShutdown /\ ~userDone
    /\ userDone' = TRUE
    /\ UNCHANGED <<httpSvr, listener, activeConns, tctx, inFlySend, drainVars, timeVars,
                   callVars, activeSessions, closedSessions, created, outVars, dispVars, th>>

\* serverCtx is done: cancelled by the waiter, through userCtx, or by the
\* deferred cancel() when Server.Shutdown returns.
serverCtxDone == drained \/ userDone \/ \E t \in Shutters : th[t].pc = "sd_done"

\* transport.Shutdown.  Without httpSvr it runs shutdownFunc itself.  With
\* httpSvr it registers shutdownFunc and calls httpSvr.Shutdown, which closes
\* the listener, starts each registered function on a goroutine of its own,
\* and then polls for the connections to become idle.
transportShutdown(t) ==
    /\ th[t].pc = "sd_transport"
    /\ IF httpSvr = "nil"
       THEN /\ th' = [th EXCEPT ![t].pc = "sf_wait"]
            /\ UNCHANGED listener
       ELSE /\ \E f \in Hooks :
                th' = [th EXCEPT ![t].pc = "sd_poll", ![f].pc = "sf_wait"]
            /\ listener' = "closed"
    /\ UNCHANGED <<httpSvr, activeConns, userDone, tctx, inFlySend, drainVars, timeVars,
                   callVars, activeSessions, closedSessions, created, outVars, dispVars>>

\* httpSvr.Shutdown(userCtx): returns nil once no connection is active, and
\* ctx.Err() when userCtx is done first.
httpShutdownPoll(t) ==
    /\ th[t].pc = "sd_poll"
    /\ activeConns = 0 \/ userDone
    /\ th' = [th EXCEPT ![t] = [@ EXCEPT !.pc = "sd_done",
                    !.res = IF activeConns = 0 THEN "nil"
                            ELSE "failed to shutdown HTTP server"]]
    /\ UNCHANGED <<transVars, drainVars, timeVars, callVars, activeSessions, closedSessions,
                   created, outVars, dispVars>>

\* shutdownFunc: <-serverCtx.Done() ...
shutdownWait(t) ==
    /\ th[t].pc = "sf_wait"
    /\ serverCtxDone
    /\ th' = [th EXCEPT ![t].pc = "sf_cancel"]
    /\ UNCHANGED <<transVars, drainVars, timeVars, callVars, activeSessions, closedSessions,
                   created, outVars, dispVars>>

\* ... t.cancel() ...
shutdownCancel(t) ==
    /\ th[t].pc = "sf_cancel"
    /\ tctx' = TRUE
    /\ th' = [th EXCEPT ![t].pc = "sf_sends"]
    /\ UNCHANGED <<httpSvr, listener, activeConns, userDone, inFlySend, drainVars, timeVars,
                   callVars, activeSessions, closedSessions, created, outVars, dispVars>>

\* ... t.inFlySend.Wait() ...
shutdownSendsWait(t) ==
    /\ th[t].pc = "sf_sends"
    /\ inFlySend = 0
    /\ th' = [th EXCEPT ![t].pc = "sf_close"]
    /\ UNCHANGED <<transVars, drainVars, timeVars, callVars, activeSessions, closedSessions,
                   created, outVars, dispVars>>

\* ... t.sessionManager.CloseAllSessions().
shutdownCloseAll(t) ==
    /\ th[t].pc = "sf_close"
    /\ th' = [th EXCEPT ![t] = [@ EXCEPT !.pc = "ca_next", !.todo = activeSessions]]
    /\ UNCHANGED <<transVars, drainVars, timeVars, callVars, activeSessions, closedSessions,
                   created, outVars, dispVars>>

\* Without httpSvr, transport.Shutdown returns nil after shutdownFunc.
shutdownReturn(t) ==
    /\ httpSvr = "nil"
    /\ th[t].pc = "ca_done"
    /\ th' = [th EXCEPT ![t] = [@ EXCEPT !.pc = "sd_done", !.res = "nil"]]
    /\ UNCHANGED <<transVars, drainVars, timeVars, callVars, activeSessions, closedSessions,
                   created, outVars, dispVars>>

\* ---- contexts: pkg.CancelShieldContext and the handler's context ------------
\* A context is the sequence of its layers, outermost first: a cancellable
\* layer holds its error ("live" while it has none), a value layer a key and
\* a value, a shield layer nothing.
cancelLayer(state) == [kind |-> "cancel", key |-> "", val |-> state]
shieldLayer == [kind |-> "shield", key |-> "", val |-> ""]

\* Mutant: the shield hands on what the embedded context reports.
shieldedErrOfInner(inner) == inner

\* CancelShieldContext.Done returns a nil channel and Err returns nil,
\* whatever the embedded context reports.
shieldedErr(inner) == "nil"

\* Err of a context: the error of its first cancelled layer that is not
\* behind a shield.  Done is ready exactly when Err is not nil.
RECURSIVE Err(_)
Err(c) ==
    IF c = <<>> THEN "nil"
    ELSE IF Head(c).kind = "shield" THEN shieldedErr(Err(Tail(c)))
    ELSE IF Head(c).kind = "cancel" /\ Head(c).val # "live" THEN Head(c).val
    ELSE Err(Tail(c))

\* Value is not overridden by the shield: it is the embedded context's.
RECURSIVE Value(_, _)
Value(c, key) ==
    IF c = <<>> THEN "nil"
    ELSE IF Head(c).kind = "value" /\ Head(c).key = key THEN Head(c).val
    ELSE Value(Tail(c), key)

WithValue(c, key, val) == <<[kind |-> "value", key |-> key, val |-> val]>> \o c
NewCancelShieldContext(c) == <<shieldLayer>> \o c
setSessionIDToCtx(c, sessionID) == WithValue(c, "sessionIDKey", sessionID)

\* handlePost: the shielded r.Context() with the SessionIDForReturn holder.
postCtx(t) ==
    WithValue(NewCancelShieldContext(<<cancelLayer(th[t].rctx)>>),
              "SessionIDForReturnKey", "SessionIDForReturn")

\* The context of the handler goroutine: receive shields what it was given,
\* receiveRequest adds the session id.
handlerCtx(t) == setSessionIDToCtx(NewCancelShieldContext(postCtx(t)), th[t].sid)

\* handlePost hands a request frame of a session to receive.
receivePost(t, sessionID, method) ==
    /\ th[t].pc = "idle"
    /\ th' = [th EXCEPT ![t] = [@ EXCEPT !.pc = classify(1, method), !.sid = sessionID,
                                          !.fid = 1, !.method = method, !.dup = inShutdown]]
    /\ UNCHANGED <<timeVars, callVars, activeSessions, closedSessions, created, outVars,
                   dispVars, shutVars>>

\* The request's context ends: the client went away, or its deadline passed.
RequestCtxDone(t, err) ==
    /\ th[t].pc # "idle"
    /\ th[t].rctx = "live"
    /\ th' = [th EXCEPT ![t].rctx = err]
    /\ UNCHANGED <<timeVars, callVars, activeSessions, closedSessions, created, outVars,
                   dispVars, shutVars>>

\* ---- the registries and the notification broadcasts ------------------------
Kinds == {"tool", "template"}    \* prompts go as tools do, resources as templates
URIs == {"u1", "u2"}             \* resources reported as updated
SubscribedURIs == {"u1"}         \* resources the sessions subscribe to
ResourcesUpdated == "notifications/resources/updated"

\* The capability flag a registry's list-changed notification is sent under:
\* Tools.ListChanged, Prompts.ListChanged, and Resources.ListChanged for
\* resources and resource templates.
listChanged(kind) ==
    IF kind = "tool" THEN capabilities.tools
    ELSE IF kind = "prompt" THEN capabilities.prompts
    ELSE capabilities.resources

notification4ListChanges(kind) ==
    IF kind = "tool" THEN "notifications/tools/list_changed"
    ELSE IF kind = "prompt" THEN "notifications/prompts/list_changed"
    ELSE "notifications/resources/list_changed"

\* WithCapabilities: an option of NewServer, before any session exists.
WithCapabilities(c) ==
    /\ created = {} /\ registry = {}
    /\ capabilities = DefaultCapabilities /\ c # capabilities
    /\ \A t \in Registrars : th[t].pc = "idle"
    /\ capabilities' = c
    /\ UNCHANGED <<registry, subscribedResources, drainVars, transVars, timeVars,
                   callVars, activeSessions, closedSessions, created, outVars, dispVars, th>>

\* resources/subscribe and resources/unsubscribe of a session, served while
\* the server advertises the subscribe capability.
Subscribe(sessionID, uri, on) ==
    /\ GetSession(sessionID)
    /\ capabilities.subscribe
    /\ subscribedResources' = [subscribedResources EXCEPT ![sessionID] =
                                    IF on THEN @ \cup {uri} ELSE @ \ {uri}]
    /\ subscribedResources' # subscribedResources
    /\ UNCHANGED <<capabilities, registry, drainVars, transVars, timeVars,
                   callVars, activeSessions, closedSessions, created, outVars, dispVars, th>>

\* RegisterTool, UnregisterTool and their likes for prompts, resources and
\* resource templates: the registry is written; unless the session manager
\* is empty the list-changed notification is sent, which returns
\* ErrServerNotSupport without the capability and else ranges over the sessions.
RegisterOrUnregister(t, kind, add) ==
    /\ th[t].pc = "idle"
    /\ registry' = IF add THEN registry \cup {kind} ELSE registry \ {kind}
    /\ th' = [th EXCEPT ![t] =
            IF activeSessions = {}
            THEN [@ EXCEPT !.pc = "reg_done", !.res = "nil"]
            ELSE IF ~listChanged(kind)
            THEN [@ EXCEPT !.pc = "reg_done", !.res = "ErrServerNotSupport",
                           !.snap = activeSessions]
            ELSE [@ EXCEPT !.pc = "bc_range", !.method = notification4ListChanges(kind),
                           !.todo = activeSessions, !.snap = activeSessions]]
    /\ UNCHANGED <<capabilities, subscribedResources, drainVars, transVars, timeVars,
                   callVars, activeSessions, closedSessions, created, outVars, dispVars>>

SendNotification4ResourcesUpdated(t, uri) ==
    /\ th[t].pc = "idle"
    /\ th' = [th EXCEPT ![t] =
            IF ~capabilities.subscribe
            THEN [@ EXCEPT !.pc = "reg_done", !.res = "ErrServerNotSupport",
                           !.msg = uri, !.snap = activeSessions]
            ELSE [@ EXCEPT !.pc = "bc_range", !.method = ResourcesUpdated, !.msg = uri,
                           !.todo = activeSessions, !.snap = activeSessions]]
    /\ UNCHANGED <<regVars, drainVars, transVars, timeVars,
                   callVars, activeSessions, closedSessions, created, outVars, dispVars>>

\* What sendMsgWithNotification returns for a session, the outbox having room.
sendMsgWithNotification(s) ==
    IF ~GetSession(s) THEN "ErrLackSession" ELSE enqueueCheck(closed[s], sendChan[s])

\* Mutant: the callback stops the Range at the first failed send.
rangeContinuesWhileSent(err) == err = "nil"

\* The callbacks given to RangeSessions return true whatever the send returned.
rangeContinues(err) == TRUE

\* Mutant: the notification goes to every session, subscribed or not.
wantsAlways(t, s) == TRUE

\* The callback of SendNotification4ResourcesUpdated returns early for a
\* session whose subscribedResources lacks the URI; the others send always.
wants(t, s) ==
    th[t].method = ResourcesUpdated => th[t].msg \in subscribedResources[s]

\* One call of the Range callback.  sync.Map.Range visits every key present
\* throughout the call; a key stored during the call may be visited as well.
RangeSessions(t) ==
    /\ th[t].pc = "bc_range"
    /\ \E s \in th[t].todo \cup (activeSessions \ th[t].snap) :
        /\ s \notin th[t].sent
        /\ IF ~wants(t, s)
           THEN /\ s \in th[t].todo
                /\ th' = [th EXCEPT ![t].todo = @ \ {s}]
                /\ UNCHANGED sendChan
           ELSE LET err == sendMsgWithNotification(s) IN
                /\ err = "nil" => Len(sendChan[s].buf) < QueueCap
                /\ sendChan' = IF err = "nil"
                               THEN [sendChan EXCEPT ![s].buf = Append(@, th[t].method)]
                               ELSE sendChan
                /\ th' = [th EXCEPT ![t] = [@ EXCEPT
                        !.todo = IF rangeContinues(err) THEN @ \ {s} ELSE {},
                        !.sent = @ \cup {s},
                        !.errList = IF err = "nil" THEN @ ELSE @ \cup {s}]]
    /\ UNCHANGED <<regVars, drainVars, transVars, timeVars, callVars, activeSessions,
                   closedSessions, created, closed, mu, panicked, dispVars>>

\* The Range is over: pkg.JoinErrors(errList) is returned.
RangeDone(t) ==
    /\ th[t].pc = "bc_range"
    /\ th[t].todo = {}
    /\ th' = [th EXCEPT ![t] = [@ EXCEPT !.pc = "reg_done",
                    !.res = IF th[t].errList = {} THEN "nil" ELSE "errors"]]
    /\ UNCHANGED <<regVars, drainVars, transVars, timeVars, callVars, activeSessions,
                   closedSessions, created, outVars, dispVars>>

\* ---- the peer-call facade: Server.callClient and Client.callServer ----------
\* Endpoints own a pending-call map: each session (State.reqID2respChan) and
\* the client (Client.reqID2respChan), the latter indexed by the empty id.
Endpoints == {NoSessionID} \cup SessionIDs
CallIDs == 1..MaxCalls
RespChanCap == 1

Ep(t) == th[t].sid

\* The process is built as a server ...
NewServer ==
    /\ side = ""
    /\ side' = "server"
    /\ UNCHANGED <<timeVars, activeSessions, closedSessions, created, outVars, dispVars, requestID,
                   reqID2respChan, respChan, delivered, clientReady, initializationMu, th>>

\* ... or as a client: NewClient returns the client once its initialization
\* has stored ready.
NewClient ==
    /\ side = ""
    /\ side' = "client"
    /\ clientReady' = TRUE
    /\ UNCHANGED <<timeVars, activeSessions, closedSessions, created, outVars, dispVars, requestID,
                   reqID2respChan, respChan, delivered, initializationMu, th>>

\* requestID := IncRequestID(); respChan := make(chan, 1); Set(requestID, respChan)
Register(t, ep, method, cancellable, outer) ==
    LET id == requestID[ep] + 1 IN
    /\ requestID[ep] < MaxCalls
    /\ requestID' = [requestID EXCEPT ![ep] = id]
    /\ respChan' = [respChan EXCEPT ![ep][id] = <<>>]
    /\ reqID2respChan' = [reqID2respChan EXCEPT ![ep] = @ \cup {id}]
    /\ th' = [th EXCEPT ![t] = [@ EXCEPT !.pc = "call_send", !.sid = ep, !.fid = id,
                                          !.method = method, !.ctx = cancellable,
                                          !.outer = outer]]

\* Server.callClient: the session lookup, then the registration.
callClient(t, sessionID, method, cancellable) ==
    /\ side = "server"
    /\ th[t].pc = "idle"
    /\ IF GetSession(sessionID)
       THEN Register(t, sessionID, method, cancellable, 0)
       ELSE /\ th' = [th EXCEPT ![t] = [@ EXCEPT !.pc = "call_done", !.sid = sessionID,
                                                  !.method = method, !.res = "ErrLackSession"]]
            /\ UNCHANGED <<requestID, respChan, reqID2respChan>>
    /\ UNCHANGED <<timeVars, activeSessions, closedSessions, created, outVars, dispVars, side,
                   delivered, clientReady, initializationMu>>

\* Client.callServer: the ready check, then the registration.
callServer(t, method, cancellable) ==
    /\ side = "client"
    /\ th[t].pc = "idle"
    /\ IF ~clientReady /\ method # Initialize /\ method # Ping
       THEN /\ th' = [th EXCEPT ![t] = [@ EXCEPT !.pc = "call_done", !.method = method,
                                                  !.res = "client not ready"]]
            /\ UNCHANGED <<requestID, respChan, reqID2respChan>>
       ELSE Register(t, NoSessionID, method, cancellable, 0)
    /\ UNCHANGED <<timeVars, activeSessions, closedSessions, created, outVars, dispVars, side,
                   delivered, clientReady, initializationMu>>

\* Server.sendMsgWithRequest: transport.Send delivers the request or fails.
serverSend(t) ==
    /\ side = "server"
    /\ th[t].pc = "call_send"
    /\ \E sent \in BOOLEAN :
        th' = [th EXCEPT ![t] = IF sent THEN [@ EXCEPT !.pc = "call_wait"]
                                ELSE [@ EXCEPT !.pc = "call_remove", !.res = "send error"]]
    /\ UNCHANGED <<timeVars, activeSessions, closedSessions, created, outVars, dispVars, callVars>>

\* Client.sendMsgWithRequest: transport.Send delivers the request, fails, or
\* reports ErrSessionClosed, which starts againInitialization:
\* ready.Store(false) and then the wait for initializationMu.
clientSend(t) ==
    /\ side = "client"
    /\ th[t].pc = "call_send"
    /\ \E outcome \in {"sent", "error", "ErrSessionClosed"} :
        /\ th' = [th EXCEPT ![t] =
              IF outcome = "sent" THEN [@ EXCEPT !.pc = "call_wait"]
              ELSE IF outcome = "error" THEN [@ EXCEPT !.pc = "call_remove", !.res = "send error"]
              ELSE [@ EXCEPT !.pc = "reinit_lock"]]
        /\ clientReady' = IF outcome = "ErrSessionClosed" THEN FALSE ELSE clientReady
    /\ UNCHANGED <<timeVars, activeSessions, closedSessions, created, outVars, dispVars, side,
                   requestID, respChan, reqID2respChan, delivered, initializationMu>>

\* againInitialization: initializationMu.Lock(); if ready is set again the
\* send counts as done; otherwise initialization calls callServer(initialize)
\* while the outer call stays registered.
againInitialization(t) ==
    /\ th[t].pc = "reinit_lock"
    /\ initializationMu = ""
    /\ IF clientReady
       THEN /\ th' = [th EXCEPT ![t].pc = "call_wait"]
            /\ UNCHANGED <<requestID, respChan, reqID2respChan, initializationMu>>
       ELSE /\ initializationMu' = t
            /\ Register(t, NoSessionID, Initialize, th[t].ctx, th[t].fid)
    /\ UNCHANGED <<timeVars, activeSessions, closedSessions, created, outVars, dispVars, side,
                   delivered, clientReady>>

\* select { case <-ctx.Done(): ... }
callCtxDone(t) ==
    /\ th[t].pc = "call_wait"
    /\ th[t].ctx
    /\ th' = [th EXCEPT ![t] = [@ EXCEPT !.pc = "call_remove", !.res = "ctx.Err"]]
    /\ UNCHANGED <<timeVars, activeSessions, closedSessions, created, outVars, dispVars, callVars>>

\* select { case response := <-respChan: ... }: the response carries a
\* result, or an error that is returned as a ResponseError.
callReply(t) ==
    /\ th[t].pc = "call_wait"
    /\ respChan[Ep(t)][th[t].fid] # <<>>
    /\ respChan' = [respChan EXCEPT ![Ep(t)][th[t].fid] = Tail(@)]
    /\ \E r \in {"result", "ResponseError"} :
        th' = [th EXCEPT ![t] = [@ EXCEPT !.pc = "call_remove", !.res = r]]
    /\ UNCHANGED <<timeVars, activeSessions, closedSessions, created, outVars, dispVars, side,
                   requestID, reqID2respChan, delivered, clientReady, initializationMu>>

\* Mutant: the slot stays registered after the call.
RemoveNothing(ids, id) == ids

\* defer GetReqID2respChan().Remove(requestID)
Remove(ids, id) == ids \ {id}

\* The deferred Remove runs and the call returns.  A returning nested
\* initialize call ends againInitialization: with a result,
\* notifications/initialized is sent, ready is stored and the outer send
\* counts as done (the outer request is not sent again); with an error the
\* outer send fails.  initializationMu is released either way.
callReturn(t) ==
    /\ th[t].pc = "call_remove"
    /\ reqID2respChan' = [reqID2respChan EXCEPT ![Ep(t)] = Remove(@, th[t].fid)]
    /\ IF th[t].outer = 0
       THEN /\ th' = [th EXCEPT ![t].pc = "call_done"]
            /\ UNCHANGED <<clientReady, initializationMu>>
       ELSE /\ initializationMu' = ""
            /\ \E notified \in BOOLEAN :
                IF th[t].res = "result" /\ notified
                THEN /\ clientReady' = TRUE
                     /\ th' = [th EXCEPT ![t] = [@ EXCEPT !.pc = "call_wait", !.res = "",
                                    !.fid = th[t].outer, !.outer = 0, !.method = ToolsCall]]
                ELSE /\ clientReady' = clientReady
                     /\ th' = [th EXCEPT ![t] = [@ EXCEPT !.pc = "call_remove",
                                    !.res = "initialization error",
                                    !.fid = th[t].outer, !.outer = 0, !.method = ToolsCall]]
    /\ UNCHANGED <<timeVars, activeSessions, closedSessions, created, outVars, dispVars, side,
                   requestID, respChan, delivered>>

\* ---- Client.sendMsgWithRequest and againInitialization, step by step --------
\* The request is marshalled and handed to transport.Send.
sendMsgWithRequest(t) ==
    /\ side = "client" /\ clientReady
    /\ th[t].pc = "idle"
    /\ th' = [th EXCEPT ![t] = [@ EXCEPT !.pc = "snd_send", !.method = ToolsCall]]
    /\ UNCHANGED <<timeVars, activeSessions, closedSessions, created, outVars, dispVars, callVars>>

\* transport.Send returns: nil, ErrSessionClosed (againInitialization is
\* entered), or another error.
sendReturns(t, err) ==
    /\ th[t].pc = "snd_send"
    /\ th' = [th EXCEPT ![t] =
            IF err = "ErrSessionClosed" THEN [@ EXCEPT !.pc = "reinit_store"]
            ELSE [@ EXCEPT !.pc = "call_done", !.res = err]]
    /\ UNCHANGED <<timeVars, activeSessions, closedSessions, created, outVars, dispVars, callVars>>

\* againInitialization: client.ready.Store(false) ...
againStore(t) ==
    /\ th[t].pc = "reinit_store"
    /\ clientReady' = FALSE
    /\ th' = [th EXCEPT ![t].pc = "reinit_mu"]
    /\ UNCHANGED <<timeVars, activeSessions, closedSessions, created, outVars, dispVars, side,
                   requestID, reqID2respChan, respChan, delivered, initializationMu>>

\* ... client.initializationMu.Lock() ...
againLock(t) ==
    /\ th[t].pc = "reinit_mu"
    /\ initializationMu = ""
    /\ initializationMu' = t
    /\ th' = [th EXCEPT ![t].pc = "reinit_check"]
    /\ UNCHANGED <<timeVars, activeSessions, closedSessions, created, outVars, dispVars, side,
                   requestID, reqID2respChan, respChan, delivered, clientReady>>

\* ... if client.ready.Load() { return nil } with the deferred Unlock; else
\* client.initialization is called.
againCheck(t) ==
    /\ th[t].pc = "reinit_check"
    /\ IF clientReady
       THEN /\ initializationMu' = ""
            /\ th' = [th EXCEPT ![t] = [@ EXCEPT !.pc = "call_done", !.res = "nil"]]
       ELSE /\ initializationMu' = initializationMu
            /\ th' = [th EXCEPT ![t] = [@ EXCEPT !.pc = "init_call",
                                                   !.handshakes = @ + 1]]
    /\ UNCHANGED <<timeVars, activeSessions, closedSessions, created, outVars, dispVars, side,
                   requestID, reqID2respChan, respChan, delivered, clientReady>>

\* client.initialization returns.  With a result ready is stored and the
\* send returns nil; with an error the send returns it; the mutex is
\* released either way.  When the handshake's own send meets
\* ErrSessionClosed, againInitialization is entered again: ready is cleared
\* and the goroutine waits for the mutex it holds.
\* (restored records, for the senders that have met ErrSessionClosed and
\* not yet cleared ready, that ready was set meanwhile.)
initialization(t, err) ==
    /\ th[t].pc = "init_call"
    /\ clientReady' = (err = "nil")
    /\ initializationMu' = IF err = "ErrSessionClosed" THEN initializationMu ELSE ""
    /\ th' = [u \in Threads |->
            IF u = t
            THEN IF err = "ErrSessionClosed" THEN [th[u] EXCEPT !.pc = "reinit_held"]
                 ELSE [th[u] EXCEPT !.pc = "call_done", !.res = err]
            ELSE IF err = "nil" /\ th[u].pc = "reinit_store"
                 THEN [th[u] EXCEPT !.restored = TRUE]
                 ELSE th[u]]
    /\ UNCHANGED <<timeVars, activeSessions, closedSessions, created, outVars, dispVars, side,
                   requestID, reqID2respChan, respChan, delivered>>

\* ---- Client.initialization, statement by statement ---------------------------
\* The protocol versions a server may answer with, and protocol.SupportedVersion.
Versions == {"2025-03-26", "2024-11-05", "0.1"}
SupportedVersion == {"2025-03-26", "2024-11-05"}

\* Mutant: every protocol version passes the check.
isSupportedAny(version) == TRUE

\* _, ok := protocol.SupportedVersion[result.ProtocolVersion]
isSupported(version) == version \in SupportedVersion

\* The deferred initializationMu.Unlock() of againInitialization, which a
\* goroutine inside NewClient does not hold.
unlockIfHeld(t) == IF initializationMu = t THEN "" ELSE initializationMu

\* NewClient: the transport is started and initialization is called; ready is
\* still false.
StartClient(t) ==
    /\ side = ""
    /\ th[t].pc = "idle"
    /\ side' = "client"
    /\ th' = [th EXCEPT ![t] = [@ EXCEPT !.pc = "init_call", !.method = Initialize]]
    /\ UNCHANGED <<timeVars, activeSessions, closedSessions, created, outVars, dispVars,
                   requestID, reqID2respChan, respChan, delivered, clientReady,
                   initializationMu>>

\* client.callServer(ctx, protocol.Initialize, request) returns, and the result
\* is unmarshalled: an error ends the initialization; else the version of
\* the result is at hand.  A send that meets ErrSessionClosed enters
\* againInitialization from inside the handshake, which waits for the mutex
\* againInitialization holds.
initializeReply(t, outcome) ==
    /\ th[t].pc = "init_call"
    /\ outcome = "ErrSessionClosed" => initializationMu = t
    /\ th' = [th EXCEPT ![t] =
            IF outcome \in Versions
            THEN [@ EXCEPT !.pc = "init_version", !.msg = outcome]
            ELSE IF outcome = "ErrSessionClosed"
            THEN [@ EXCEPT !.pc = "reinit_held"]
            ELSE [@ EXCEPT !.pc = "call_done", !.res = outcome]]
    /\ clientReady' = IF outcome = "ErrSessionClosed" THEN FALSE ELSE clientReady
    /\ initializationMu' = IF outcome \in Versions \cup {"ErrSessionClosed"}
                           THEN initializationMu ELSE unlockIfHeld(t)
    /\ UNCHANGED <<timeVars, activeSessions, closedSessions, created, outVars, dispVars, side,
                   requestID, reqID2respChan, respChan, delivered>>

\* The version check: an unsupported version ends the initialization.
versionCheck(t) ==
    /\ th[t].pc = "init_version"
    /\ th' = [th EXCEPT ![t] =
            IF isSupported(th[t].msg) THEN [@ EXCEPT !.pc = "init_notify"]
            ELSE [@ EXCEPT !.pc = "call_done", !.res = "protocol version not supported"]]
    /\ initializationMu' = IF isSupported(th[t].msg) THEN initializationMu
                           ELSE unlockIfHeld(t)
    /\ UNCHANGED <<timeVars, activeSessions, closedSessions, created, outVars, dispVars, side,
                   requestID, reqID2respChan, respChan, delivered, clientReady>>

\* client.sendNotification4Initialized(ctx): transport.Send takes the
\* notification, or fails and the initialization ends.
sendNotification4Initialized(t, sendOK) ==
    /\ th[t].pc = "init_notify"
    /\ th' = [th EXCEPT ![t] =
            IF sendOK
            THEN [@ EXCEPT !.pc = "init_ready", !.sent = @ \cup {NotificationInitialized}]
            ELSE [@ EXCEPT !.pc = "call_done",
                           !.res = "failed to send InitializedNotification"]]
    /\ initializationMu' = IF sendOK THEN initializationMu ELSE unlockIfHeld(t)
    /\ UNCHANGED <<timeVars, activeSessions, closedSessions, created, outVars, dispVars, side,
                   requestID, reqID2respChan, respChan, delivered, clientReady>>

\* client.ready.Store(true), the last statement of initialization; NewClient
\* returns the client, againInitialization goes on to its own Store.
initializationReady(t) ==
    /\ th[t].pc = "init_ready"
    /\ clientReady' = TRUE
    /\ th' = [th EXCEPT ![t] = IF initializationMu = t
                               THEN [@ EXCEPT !.pc = "reinit_ready"]
                               ELSE [@ EXCEPT !.pc = "call_done", !.res = "nil"]]
    /\ UNCHANGED <<timeVars, activeSessions, closedSessions, created, outVars, dispVars, side,
                   requestID, reqID2respChan, respChan, delivered, initializationMu>>

\* againInitialization: client.ready.Store(true); return nil, with the Unlock.
againReady(t) ==
    /\ th[t].pc = "reinit_ready"
    /\ clientReady' = TRUE
    /\ initializationMu' = ""
    /\ th' = [th EXCEPT ![t] = [@ EXCEPT !.pc = "call_done", !.res = "nil"]]
    /\ UNCHANGED <<timeVars, activeSessions, closedSessions, created, outVars, dispVars, side,
                   requestID, reqID2respChan, respChan, delivered>>

\* ---- the client's POST over streamable HTTP ----------------------------------
\* Server.receive and handlePost: the status of a POST that carries the
\* session id sid in its header, as far as the session check decides it.
postStatus(sid) ==
    IF sid # NoSessionID /\ ~IsActiveSession(sid)
    THEN IF IsClosedSession(sid) THEN 404 ELSE 400
    ELSE 200

\* streamableHTTPClientTransport.Send: what it returns for a status.  The
\* header is set from t.sessionID, which is written only from a response's
\* header.
clientSendErr(status) ==
    IF status < 200 \/ status >= 300
    THEN IF clientSessionID # NoSessionID /\ status = 404 THEN "ErrSessionClosed"
         ELSE "unexpected status code"
    ELSE "nil"

\* transport.Send of a request, answered by the server as its sessions are.
transportSend(t) == sendReturns(t, clientSendErr(postStatus(clientSessionID)))

\* The initialize request of client.initialization is sent.  Answered, it
\* brings the session id of a new session when none was sent, and a result
\* with the server's protocol version.  Refused with ErrSessionClosed, the
\* send calls againInitialization from inside the handshake.
initializeSend(t) ==
    /\ th[t].pc = "init_call"
    /\ LET err == clientSendErr(postStatus(clientSessionID)) IN
        IF err = "nil"
        THEN /\ clientSessionID = NoSessionID => Cardinality(created) < MaxSessions
             /\ handleRequestWithInitialize(clientSessionID, TRUE, TRUE)
             /\ clientSessionID' = IF clientSessionID = NoSessionID
                                   THEN Cardinality(created) + 1 ELSE clientSessionID
             /\ lastActiveAt' = [s \in DOMAIN lastActiveAt |->
                    IF s \in created' \ created \/ s = clientSessionID
                    THEN clock ELSE lastActiveAt[s]]
             /\ \E v \in Versions :
                    th' = [th EXCEPT ![t] = [@ EXCEPT !.pc = "init_version", !.msg = v]]
             /\ UNCHANGED initializationMu
        ELSE /\ th' = [th EXCEPT ![t] =
                    IF err = "ErrSessionClosed" THEN [@ EXCEPT !.pc = "reinit_store"]
                    ELSE [@ EXCEPT !.pc = "call_done", !.res = err]]
             /\ initializationMu' = IF err = "ErrSessionClosed" THEN initializationMu
                                    ELSE unlockIfHeld(t)
             /\ UNCHANGED <<activeSessions, created, receivedInitRequest, clientSessionID,
                            lastActiveAt>>
    /\ UNCHANGED <<clock, maxIdleTime, closedSessions, outVars, ready, inShutdown,
                   inFlyRequest, side, requestID, reqID2respChan, respChan, delivered,
                   clientReady>>

\* ---- the streamable-HTTP client's GET stream loop ----------------------------
Streamers == {"g1"}              \* the goroutine Start runs startSSEStream in
GetStatuses == {200, 400, 404, 405, 500}
GetOutcomes == GetStatuses \cup {0} \* 0: client.Do failed, there is no status

\* Mutant: a 404 ends the loop as the other statuses do.
retriesNever(status) == FALSE

\* case http.StatusNotFound: continue
retries(status) == status = 404

\* resp.StatusCode < 200 || resp.StatusCode >= 300
isFailure(status) == status < 200 \/ status >= 300

\* streamableHTTPClientTransport.Start: the goroutine enters startSSEStream,
\* and the timer is set to one second.
Start(t) ==
    /\ th[t].pc = "idle"
    /\ th' = [th EXCEPT ![t] = [@ EXCEPT !.pc = "sse_select", !.h = "armed"]]
    /\ UNCHANGED <<tctx, clientSessionID, sse>>

\* A second has passed since timer.Reset.
timerFires(t) ==
    /\ th[t].pc = "sse_select" /\ th[t].h = "armed"
    /\ th[t].now < MaxFires
    /\ th' = [th EXCEPT ![t] = [@ EXCEPT !.h = "fired", !.now = @ + 1]]
    /\ UNCHANGED <<tctx, clientSessionID, sse>>

\* A POST's response carries a session id: t.sessionID.Store(respSessionID).
storeSessionID(sid) ==
    /\ clientSessionID = NoSessionID /\ ~tctx
    /\ clientSessionID' = sid
    /\ UNCHANGED <<tctx, sse, th>>

\* The transport's ctx is cancelled (Close).
cancel ==
    /\ ~tctx
    /\ tctx' = TRUE
    /\ UNCHANGED <<clientSessionID, sse, th>>

\* select, case <-t.ctx.Done(): return
streamCtxDone(t) ==
    /\ th[t].pc = "sse_select"
    /\ tctx
    /\ th' = [th EXCEPT ![t].pc = "sse_returned"]
    /\ UNCHANGED <<tctx, clientSessionID, sse>>

\* select, case <-timer.C: without a session id the loop continues; else the
\* GET is sent with t.ctx.  A failed client.Do and a 404 continue the loop,
\* any other status outside 2xx returns, a 2xx status enters handleSSEStream.
\* Continuing, the loop resets the timer.
streamTry(t, outcome) ==
    /\ th[t].pc = "sse_select" /\ th[t].h = "fired"
    /\ tctx => outcome = 0
    /\ th' = [th EXCEPT ![t] =
            IF clientSessionID = NoSessionID THEN [@ EXCEPT !.h = "armed"]
            ELSE IF outcome = 0
            THEN [@ EXCEPT !.h = "armed", !.tries = Append(@, outcome)]
            ELSE IF isFailure(outcome)
            THEN IF retries(outcome)
                 THEN [@ EXCEPT !.h = "armed", !.tries = Append(@, outcome)]
                 ELSE [@ EXCEPT !.pc = "sse_returned", !.tries = Append(@, outcome)]
            ELSE [@ EXCEPT !.pc = "sse_stream", !.tries = Append(@, outcome)]]
    /\ UNCHANGED <<tctx, clientSessionID, sse>>

\* handleSSEStream returns: the server ended the stream, or the read failed
\* (as it does once t.ctx is cancelled); the loop resets the timer.
streamEnds(t) ==
    /\ th[t].pc = "sse_stream"
    /\ th' = [th EXCEPT ![t] = [@ EXCEPT !.pc = "sse_select", !.h = "armed"]]
    /\ UNCHANGED <<tctx, clientSessionID, sse>>

\* ---- receiveResponse (server and client) -------------------------------------
\* Client.receive hands a response frame to receiveResponse on a goroutine.
clientReceive(t, fid) ==
    /\ side = "client"
    /\ th[t].pc = "idle"
    /\ th' = [th EXCEPT ![t] = [@ EXCEPT !.pc = "rcv_response", !.fid = fid,
                                          !.dup = delivered[NoSessionID][fid] > 0]]
    /\ UNCHANGED <<timeVars, activeSessions, closedSessions, created, outVars, dispVars, callVars>>

\* Server.receive for a response frame: the session check, then receiveResponse.
serverReceive(t, sessionID, fid) ==
    /\ side = "server"
    /\ th[t].pc = "idle"
    /\ th' = [th EXCEPT ![t] =
          IF sessionID # NoSessionID /\ ~IsActiveSession(sessionID)
          THEN [@ EXCEPT !.pc = "rcv_done", !.sid = sessionID, !.fid = fid,
                         !.dup = delivered[sessionID][fid] > 0,
                         !.res = IF IsClosedSession(sessionID) THEN "ErrSessionClosed"
                                 ELSE "ErrLackSession"]
          ELSE [@ EXCEPT !.pc = classify(fid, ""), !.sid = sessionID, !.fid = fid,
                         !.dup = delivered[sessionID][fid] > 0]]
    /\ UNCHANGED <<timeVars, activeSessions, closedSessions, created, outVars, dispVars, callVars>>

\* GetSession (server only), then reqID2respChan.Get(fmt.Sprint(response.ID)).
lookupRespChan(ep, fid) ==
    IF side = "server" /\ ~GetSession(ep) THEN "ErrLackSession"
    ELSE IF fid \notin reqID2respChan[ep] THEN "ErrLackResponseChan"
    ELSE "nil"

receiveResponse(t) ==
    /\ th[t].pc = "rcv_response"
    /\ LET e == lookupRespChan(Ep(t), th[t].fid) IN
        th' = [th EXCEPT ![t] = IF e = "nil" THEN [@ EXCEPT !.pc = "rr_send"]
                                ELSE [@ EXCEPT !.pc = "rcv_done", !.res = e]]
    /\ UNCHANGED <<timeVars, activeSessions, closedSessions, created, outVars, dispVars, callVars>>

\* Mutant: the delivery never takes the default branch.
HasRoomAlways(buf) == TRUE

\* select { case respChan <- response: default: ... }: room in the buffer.
HasRoom(buf) == Len(buf) < RespChanCap

\* The non-blocking send on the channel the lookup returned.
deliverResponse(t) ==
    /\ th[t].pc = "rr_send"
    /\ LET ep == Ep(t)
           id == th[t].fid IN
        IF HasRoom(respChan[ep][id])
        THEN /\ respChan' = [respChan EXCEPT ![ep][id] = Append(@, "response")]
             /\ delivered' = [delivered EXCEPT ![ep][id] = IF @ < 2 THEN @ + 1 ELSE @]
             /\ th' = [th EXCEPT ![t] = [@ EXCEPT !.pc = "rcv_done", !.res = "nil"]]
        ELSE /\ UNCHANGED <<respChan, delivered>>
             /\ th' = [th EXCEPT ![t] = [@ EXCEPT !.pc = "rcv_done",
                                                  !.res = "ErrDuplicateResponseReceived"]]
    /\ UNCHANGED <<timeVars, activeSessions, closedSessions, created, outVars, dispVars, side,
                   requestID, reqID2respChan, clientReady, initializationMu>>

\* ---- a request handler that calls the client ---------------------------------
\* The handler goroutine of a tools/call request calls the client on its
\* session (a sampling or roots request) with the context receive gave it.
handlerCallClient(t) ==
    /\ side = "server"
    /\ th[t].pc = "rcv_wait" /\ th[t].h = "running"
    /\ th[t].method = ToolsCall /\ th[t].res = ""
    /\ IF GetSession(th[t].sid)
       THEN Register(t, th[t].sid, Ping, FALSE, 0)
       ELSE /\ th' = [th EXCEPT ![t].res = "ErrLackSession"]
            /\ UNCHANGED <<requestID, respChan, reqID2respChan>>
    /\ UNCHANGED <<timeVars, activeSessions, closedSessions, created, outVars, dispVars, side,
                   delivered, clientReady, initializationMu>>

\* select { case <-ctx.Done(): ... } of that call: ready when the handler's
\* context reports an error.
handlerCallCtxDone(t) ==
    /\ th[t].pc = "call_wait" /\ th[t].h = "running"
    /\ Err(handlerCtx(t)) # "nil"
    /\ th' = [th EXCEPT ![t] = [@ EXCEPT !.pc = "call_remove", !.res = "ctx.Err"]]
    /\ UNCHANGED <<timeVars, activeSessions, closedSessions, created, outVars, dispVars, callVars>>

\* callClient has returned to the handler, which goes on to its reply.
handlerResumes(t) ==
    /\ th[t].pc = "call_done" /\ th[t].h = "running"
    /\ th' = [th EXCEPT ![t] = [@ EXCEPT !.pc = "rcv_wait", !.fid = 1, !.method = ToolsCall]]
    /\ UNCHANGED <<timeVars, activeSessions, closedSessions, created, outVars, dispVars, callVars>>

\* ---- time and the heartbeat sweep ---------------------------------------------
DetectionTries == 3

\* Manager.SetMaxIdleTime, called while the server is built.
SetMaxIdleTime(d) ==
    /\ created = {} /\ maxIdleTime = 0 /\ clock = 0
    /\ maxIdleTime' = d
    /\ UNCHANGED <<clock, lastActiveAt, activeSessions, closedSessions, created, outVars,
                   dispVars, callVars, th>>

\* Time passes.
Tick ==
    /\ clock < MaxTime
    /\ clock' = clock + 1
    /\ UNCHANGED <<lastActiveAt, maxIdleTime, activeSessions, closedSessions, created,
                   outVars, dispVars, callVars, th>>

\* Server.sessionDetection: no ping while the server shuts down, else the
\* outcome of Server.Ping.
sessionDetection(pingOK) == inShutdown \/ pingOK

\* The detection loop: the results of the calls made, which stop at the first
\* success and after DetectionTries failures.
DetectionRuns ==
    {r \in UNION {[1..n -> BOOLEAN] : n \in 1..DetectionTries} :
        /\ \A i \in 1..(Len(r) - 1) : ~r[i]
        /\ Len(r) < DetectionTries => r[Len(r)]}

\* Mutant: one failed detection is enough to close the session.
sweepClosesOnAnyFailure(idle, now, last, tries) ==
    \/ (idle # 0 /\ now - last > idle)
    \/ \E i \in 1..Len(tries) : ~tries[i]

\* The Range callback's decision for one session: expired, or detection
\* failed on each of the three tries.
sweepCloses(idle, now, last, tries) ==
    \/ (idle # 0 /\ now - last > idle)
    \/ (Len(tries) = DetectionTries /\ \A i \in 1..DetectionTries : ~tries[i])

\* case <-ticker.C: now := time.Now(); activeSessions.Range(...)
Heartbeat(t) ==
    /\ th[t].pc = "idle"
    /\ th' = [th EXCEPT ![t] = [@ EXCEPT !.pc = "hb_next", !.todo = activeSessions,
                                          !.now = clock]]
    /\ UNCHANGED <<timeVars, activeSessions, closedSessions, created, outVars, dispVars,
                   callVars>>

\* The callback for the next session of the Range: it reads lastActiveAt,
\* runs the detection loop when the session is not expired, and decides.  The
\* loop ends with the first detection that succeeds.
HeartbeatVisit(t) ==
    /\ th[t].pc = "hb_next"
    /\ IF th[t].todo = {}
       THEN th' = [th EXCEPT ![t] = [@ EXCEPT !.pc = "hb_done", !.sid = NoSessionID]]
       ELSE \E s \in th[t].todo, pings \in DetectionRuns :
            LET expired == maxIdleTime # 0 /\ th[t].now - lastActiveAt[s] > maxIdleTime
                tries == IF expired THEN <<>>
                         ELSE [i \in 1..Len(pings) |-> sessionDetection(pings[i])] IN
            /\ \A i \in 1..(Len(tries) - 1) : ~tries[i]
            /\ th' = [th EXCEPT ![t] = [@ EXCEPT
                    !.pc = IF sweepCloses(maxIdleTime, th[t].now, lastActiveAt[s], tries)
                           THEN "hb_close" ELSE "hb_next",
                    !.sid = s, !.todo = @ \ {s}, !.seen = lastActiveAt[s],
                    !.tries = tries]]
    /\ UNCHANGED <<timeVars, activeSessions, closedSessions, created, outVars, dispVars,
                   callVars>>

\* m.CloseSession(sessionID) from the callback.
HeartbeatClose(t) ==
    /\ th[t].pc = "hb_close"
    /\ LoadAndDelete(t, th[t].sid, "hb_next")
    /\ UNCHANGED <<timeVars, callVars, dispVars, closedSessions, created, closed, sendChan,
                   mu, panicked>>

\* ---- the heartbeat's probe over streamable HTTP ------------------------------
\* streamableHTTPServerTransport.Send: the transport's context, then
\* Manager.EnqueueMessageForSend: the session lookup and the checks of
\* State.enqueueMessage.
streamableSend(s) ==
    IF tctx THEN "context canceled"
    ELSE IF ~GetSession(s) THEN "ErrLackSession"
    ELSE enqueueCheck(closed[s], sendChan[s])

\* Mutant: the ping is sent without looking at the error of the send.
serverPingIgnoringSendErr(s, sendErr, replied) ==
    IF ~GetSession(s) THEN "ErrLackSession"
    ELSE IF replied THEN "nil" ELSE "context deadline exceeded"

\* Server.Ping with the three-second context of sessionDetection: callClient
\* looks the session up, sends, and waits for the reply or the deadline.
serverPing(s, sendErr, replied) ==
    IF ~GetSession(s) THEN "ErrLackSession"
    ELSE IF sendErr # "nil" THEN sendErr
    ELSE IF replied THEN "nil" ELSE "context deadline exceeded"

\* The Range callback for the next session, up to the detection loop: an
\* expired session is closed without a probe.
HeartbeatExpiry(t) ==
    /\ th[t].pc = "hb_next"
    /\ IF th[t].todo = {}
       THEN th' = [th EXCEPT ![t] = [@ EXCEPT !.pc = "hb_done", !.sid = NoSessionID]]
       ELSE \E s \in th[t].todo :
            LET expired == maxIdleTime # 0 /\ th[t].now - lastActiveAt[s] > maxIdleTime IN
            th' = [th EXCEPT ![t] = [@ EXCEPT !.pc = IF expired THEN "hb_close" ELSE "hb_probe",
                                              !.sid = s, !.todo = @ \ {s},
                                              !.seen = lastActiveAt[s], !.tries = <<>>]]
    /\ UNCHANGED <<timeVars, activeSessions, closedSessions, created, outVars, dispVars,
                   callVars>>

\* One pass of the detection loop: m.detection(context.Background(), id).
\* Outside shutdown the ping takes a request id (followed up to MaxCalls) and,
\* when the send is accepted and the outbox has room, leaves its frame there;
\* on a full outbox the send waits until the deadline.  The loop ends with a
\* success or with the third failure.
HeartbeatProbe(t) ==
    /\ th[t].pc = "hb_probe"
    /\ LET s == th[t].sid
           sendErr == streamableSend(s)
           room == Len(sendChan[s].buf) < QueueCap IN
       \E replied \in BOOLEAN :
        LET ok == sessionDetection(serverPing(s, sendErr, replied /\ room) = "nil")
            tries == Append(th[t].tries, ok) IN
        /\ th' = [th EXCEPT ![t] = [@ EXCEPT
                !.pc = IF ok THEN "hb_next"
                       ELSE IF sweepCloses(maxIdleTime, th[t].now, th[t].seen, tries)
                       THEN "hb_close" ELSE "hb_probe",
                !.tries = tries]]
        /\ requestID' = IF ~inShutdown /\ GetSession(s) /\ requestID[s] < MaxCalls
                        THEN [requestID EXCEPT ![s] = @ + 1] ELSE requestID
        /\ sendChan' = IF ~inShutdown /\ GetSession(s) /\ sendErr = "nil" /\ room
                       THEN [sendChan EXCEPT ![s].buf = Append(@, "ping")] ELSE sendChan
    /\ UNCHANGED <<timeVars, activeSessions, closedSessions, created, closed, mu, panicked,
                   dispVars, reqID2respChan, respChan, delivered, side, clientReady,
                   initializationMu>>

\* ---- frames as they arrive on the wire ---------------------------------------
\* A frame is an empty body or a JSON object in which each of the members
\* "jsonrpc", "id" and "method" is absent or has a value; "id" may be null and
\* "method" may be the empty string.
Frames ==
    {[body |-> "empty", jsonrpc |-> "absent", id |-> "absent", method |-> "absent"]}
    \cup [body : {"object"}, jsonrpc : {"absent", "1.0", "2.0"},
          id : {"absent", "null", "1"},
          method : {"absent", "", Initialize, Ping, NotificationInitialized}]

\* gjson.GetBytes(msg, "id").Exists(): a member that is present, null included.
hasID(f) == f.body = "object" /\ f.id # "absent"

\* gjson.GetBytes(msg, "method").Exists()
hasMethod(f) == f.body = "object" /\ f.method # "absent"

\* pkg.JSONUnmarshal into the frame struct: an empty body is not JSON.
JSONUnmarshal(f) == IF f.body = "object" THEN "nil" ELSE "ErrJSONUnmarshal"

\* JSONRPCRequest.IsValid: the version tag, a non-empty method, a non-nil id.
IsValid(f) ==
    /\ f.jsonrpc = "2.0"
    /\ f.method \notin {"absent", ""}
    /\ f.id \notin {"absent", "null"}

\* The fields of the decoded struct: a missing member is the zero value.
frameID(f) == IF f.id = "1" THEN 1 ELSE 0
frameMethod(f) == IF f.method = "absent" THEN "" ELSE f.method

\* The two Exists tests of Server.receive, in their order.
classifyFrame(idExists, methodExists) ==
    classify(IF idExists THEN 1 ELSE 0, IF methodExists THEN "method" ELSE "")

\* Server.receive on a frame as it arrives: the session check, the branch,
\* the decoding of the frame and, for a request, IsValid.
receiveFrame(t, sessionID, f) ==
    /\ side = "server"
    /\ th[t].pc = "idle"
    /\ th' = [th EXCEPT ![t] =
          IF sessionID # NoSessionID /\ ~IsActiveSession(sessionID)
          THEN [@ EXCEPT !.pc = "rcv_done", !.sid = sessionID, !.frame = f,
                         !.res = IF IsClosedSession(sessionID) THEN "ErrSessionClosed"
                                 ELSE "ErrLackSession"]
          ELSE LET b == classifyFrame(hasID(f), hasMethod(f)) IN
               IF JSONUnmarshal(f) # "nil"
               THEN [@ EXCEPT !.pc = "rcv_done", !.sid = sessionID, !.frame = f,
                              !.branch = b, !.res = JSONUnmarshal(f)]
               ELSE IF b = "rcv_request" /\ ~IsValid(f)
               THEN [@ EXCEPT !.pc = "rcv_done", !.sid = sessionID, !.frame = f,
                              !.branch = b, !.res = "ErrRequestInvalid"]
               ELSE [@ EXCEPT !.pc = b, !.sid = sessionID, !.frame = f, !.branch = b,
                              !.fid = frameID(f), !.method = frameMethod(f)]]
    /\ UNCHANGED <<timeVars, callVars, activeSessions, closedSessions, created, outVars, dispVars>>

\* The two Exists tests of Client.receive, in their order.
clientClassify(idExists, methodExists) ==
    IF ~idExists THEN "cl_notify"
    ELSE IF ~methodExists THEN "rcv_response"
    ELSE "cl_request"

\* Client.receive on a frame as it arrives: the branch, the decoding, IsValid
\* for a request, then the handler goroutine of the branch.
clientReceiveFrame(t, f) ==
    /\ side = "client"
    /\ th[t].pc = "idle"
    /\ th' = [th EXCEPT ![t] =
          LET b == clientClassify(hasID(f), hasMethod(f)) IN
          IF JSONUnmarshal(f) # "nil"
          THEN [@ EXCEPT !.pc = "rcv_done", !.frame = f, !.branch = b,
                         !.res = JSONUnmarshal(f)]
          ELSE IF b = "cl_request" /\ ~IsValid(f)
          THEN [@ EXCEPT !.pc = "rcv_done", !.frame = f, !.branch = b,
                         !.res = "ErrRequestInvalid"]
          ELSE [@ EXCEPT !.pc = b, !.frame = f, !.branch = b, !.fid = frameID(f),
                         !.method = frameMethod(f)]]
    /\ UNCHANGED <<timeVars, callVars, activeSessions, closedSessions, created, outVars, dispVars>>

\* The client's goroutine for a notification or a request runs its handler.
clientHandle(t) ==
    /\ side = "client"
    /\ th[t].pc \in {"cl_notify", "cl_request"}
    /\ th' = [th EXCEPT ![t] = [@ EXCEPT !.pc = "rcv_done", !.res = "nil"]]
    /\ UNCHANGED <<timeVars, callVars, activeSessions, closedSessions, created, outVars, dispVars>>

\* ---- the reply to a request ---------------------------------------------------
\* Standard JSON-RPC error codes.
ParseError == -32700
InvalidRequest == -32600
MethodNotFound == -32601
InternalError == -32603

\* The "id" member of a request on the wire: a string, or an integer written
\* as 2^pow + off (pow = 0 stands for the plain integer off).
WireIDs ==
    {[kind |-> "string", str |-> "a", pow |-> 0, off |-> 0]}
    \cup [kind : {"number"}, str : {""}, pow : {0}, off : 1..MaxCalls]
    \cup [kind : {"number"}, str : {""}, pow : {53}, off : 0..3]

\* json.Unmarshal into RequestID (interface{}): a string stays a string, a
\* number becomes the nearest float64, ties to the even mantissa.  Integers
\* below 2^53 are exact; from 2^53 to 2^54 the float64 values are 2 apart.
decodeID(w) ==
    IF w.kind = "number" /\ w.pow = 53
    THEN LET q == w.off \div 2
             r == w.off % 2 IN
         [w EXCEPT !.off = IF r = 0 THEN w.off
                           ELSE IF q % 2 = 0 THEN 2 * q ELSE 2 * (q + 1)]
    ELSE w

\* json.Marshal of the RequestID held by the response: the string, or the
\* float64 in its shortest decimal form.
encodeID(v) == v

\* What errors.Is finds in a handler's error: nil, or an error whose chain
\* holds any of the three sentinel errors.
Sentinels == {"ErrMethodNotSupport", "ErrRequestInvalid", "ErrJSONUnmarshal"}
HandlerErrs == [nil : {TRUE}, is : {{}}] \cup [nil : {FALSE}, is : SUBSET Sentinels]

\* switch { case errors.Is(err, ErrMethodNotSupport): ... default: ... }
errorCode(err) ==
    IF "ErrMethodNotSupport" \in err.is THEN MethodNotFound
    ELSE IF "ErrRequestInvalid" \in err.is THEN InvalidRequest
    ELSE IF "ErrJSONUnmarshal" \in err.is THEN ParseError
    ELSE InternalError

\* NewJSONRPCErrorResponse(request.ID, code, ...) when the handler returned an
\* error, else NewJSONRPCSuccessResponse(request.ID, result), as marshalled.
response(id, err) ==
    IF err.nil THEN [id |-> encodeID(id), kind |-> "result", code |-> 0]
    ELSE [id |-> encodeID(id), kind |-> "error", code |-> errorCode(err)]

\* Server.receiveRequest and Client.receiveRequest for a decoded request whose
\* handler returns err: the reply that is marshalled and sent.
replyRequest(t, w, err) ==
    /\ side # ""
    /\ th[t].pc = "idle"
    /\ th' = [th EXCEPT ![t] = [@ EXCEPT !.pc = "rcv_done", !.wid = w,
                                          !.res = IF err.nil THEN "nil" ELSE "error",
                                          !.todo = err.is,
                                          !.reply = response(decodeID(w), err)]]
    /\ UNCHANGED <<timeVars, callVars, activeSessions, closedSessions, created, outVars, dispVars>>

\* ---- Manager.StopHeartbeat and the end of the sweep task ---------------------
\* Server.Shutdown up to StopHeartbeat: inShutdown.Store(true), the context
\* and the goroutine that waits for the requests in flight.
shutdownStore(t) ==
    /\ th[t].pc = "idle"
    /\ inShutdown' = TRUE
    /\ th' = [th EXCEPT ![t].pc = "sd_stop"]
    /\ UNCHANGED <<timeVars, callVars, activeSessions, closedSessions, created, outVars,
                   ready, receivedInitRequest, inFlyRequest, stopHeartbeat>>

\* close(ch) panics on a channel that is closed already.
closePanics(ch) == ch = "closed"

\* StopHeartbeat: close(m.stopHeartbeat).  The panic of a second close
\* unwinds Shutdown's goroutine; else transport.Shutdown is called.
StopHeartbeat(t) ==
    /\ th[t].pc = "sd_stop"
    /\ stopHeartbeat' = "closed"
    /\ panicked' = (panicked \/ closePanics(stopHeartbeat))
    /\ th' = [th EXCEPT ![t].pc = IF closePanics(stopHeartbeat) THEN "sd_panic"
                                  ELSE "sd_transport"]
    /\ UNCHANGED <<timeVars, callVars, activeSessions, closedSessions, created, closed,
                   sendChan, mu, dispVars>>

\* transport.Shutdown returns, and with it Server.Shutdown.
shutdownReturns(t) ==
    /\ th[t].pc = "sd_transport"
    /\ th' = [th EXCEPT ![t] = Idle]
    /\ UNCHANGED <<timeVars, callVars, activeSessions, closedSessions, created, outVars,
                   dispVars, stopHeartbeat>>

\* The sweep task's select: case <-m.stopHeartbeat: return.  (The other
\* case, the tick, is Heartbeat; a select with both cases ready takes either.)
HeartbeatStop(t) ==
    /\ th[t].pc = "idle"
    /\ stopHeartbeat = "closed"
    /\ th' = [th EXCEPT ![t].pc = "hb_returned"]
    /\ UNCHANGED <<timeVars, callVars, activeSessions, closedSessions, created, outVars,
                   dispVars, stopHeartbeat>>

\* ---- the streamable HTTP transport: POST and DELETE --------------------------
ReceiverErrors == {"ErrSessionClosed", "ErrLackSession", "ErrSessionHasNotInitialized",
                   "server already shutdown", "init request not received",
                   "ErrMethodNotSupport", "ErrRequestInvalid", "ErrJSONUnmarshal",
                   "ErrLackResponseChan", "ErrDuplicateResponseReceived"}

\* handlePost, after receiver.Receive returned: 404 for ErrSessionClosed, 400
\* for any other error, 202 when there is no reply channel, 500 when the
\* channel yields no frame, else 200 with the frame.
handlePost(res) ==
    IF res = "ErrSessionClosed" THEN 404
    ELSE IF res \in ReceiverErrors THEN 400
    ELSE IF res = "nil" THEN 202
    ELSE IF res = "no frame" THEN 500
    ELSE 200

\* handleDelete: a missing Mcp-Session-Id header is answered at once; any
\* other id goes to CloseSession.
handleDelete(t, sessionID) ==
    /\ th[t].pc = "idle"
    /\ IF sessionID = NoSessionID
       THEN /\ th' = [th EXCEPT ![t] = [@ EXCEPT !.pc = "del_done", !.sid = sessionID]]
            /\ UNCHANGED activeSessions
       ELSE LoadAndDelete(t, sessionID, "del_done")
    /\ UNCHANGED <<timeVars, callVars, dispVars, closedSessions, created, closed, sendChan,
                   mu, panicked>>

\* The status handleDelete writes: 400 "Missing session ID", else 200 after
\* CloseSession.
deleteStatus(sessionID) == IF sessionID = NoSessionID THEN 400 ELSE 200

\* ---- the caller takes the result; the goroutine is free again ---------------
Returned == {"cs_done", "ca_done", "open_done", "enq_done", "deq_done", "rcv_done",
             "call_done", "hb_done", "del_done", "reg_done"}

Return(t) ==
    /\ th[t].pc \in Returned
    /\ th' = [th EXCEPT ![t] = Idle]
    /\ UNCHANGED <<timeVars, callVars, dispVars, activeSessions, closedSessions, created, closed, sendChan, mu, panicked>>

\* ---- specification: closing sessions from several goroutines --------------
\* CloseSession (DELETE, heartbeat sweep) and CloseAllSessions (shutdown) run
\* concurrently on the sessions the transport has created.
NextClose ==
    /\ UNCHANGED <<histVars, shutVars>>
    /\  \/ CreateSession
        \/ \E t \in Closers :
            \/ \E s \in created \cup {UnknownSessionID} : CloseSession(t, s)
            \/ CloseLock(t) \/ StateClose(t) \/ CloseStore(t)
            \/ CloseAllSessions(t) \/ CloseAllNext(t)
        \/ \E t \in Consumers :
            \/ \E s \in created : OpenMessageQueueForSend(t, s)
            \/ OpenLock(t) \/ openMessageQueueForSend(t)
        \/ \E t \in Closers \cup Consumers : Return(t)

SpecClose == Init /\ [][NextClose]_vars

\* ---- specification: the outbox under a producer, a GET stream and a closer --
NextOutbox ==
    /\ UNCHANGED <<histVars, shutVars>>
    /\  \/ CreateSession
        \/ \E s \in created : CloseSession("c1", s)
        \/ CloseLock("c1") \/ StateClose("c1") \/ CloseStore("c1")
        \/ \E t \in Consumers :
            \/ \E s \in created : OpenMessageQueueForSend(t, s)
            \/ OpenLock(t) \/ openMessageQueueForSend(t)
            \/ \E s \in created : DequeueMessageForSend(t, s, TRUE)
            \/ dequeueMessage(t) \/ dequeueRecv(t) \/ dequeueCtxDone(t)
        \/ \E t \in Producers :
            \/ \E s \in created, m \in Msgs, c \in BOOLEAN : EnqueueMessageForSend(t, s, m, c)
            \/ enqueueMessage(t) \/ enqueueSend(t) \/ enqueueCtxDone(t)
        \/ \E t \in Threads : Return(t)

SpecOutbox == Init /\ [][NextOutbox]_vars
\* ---- specification: the dispatch gate and the handshake --------------------
\* Inbound requests and notifications on the sessions, with or without a
\* session id, while a session may be closed and shutdown may begin.
NextDispatch ==
    /\ UNCHANGED <<histVars, shutVars>>
    /\  \/ CreateSession
        \/ ShutdownBegin
        \/ \E s \in created : CloseSession("c1", s)
        \/ CloseLock("c1") \/ StateClose("c1") \/ CloseStore("c1")
        \/ \E t \in Receivers :
            \/ \E s \in created \cup {NoSessionID}, f \in RequestFrames \cup NotifyFrames :
                    receive(t, s, f[1], f[2])
            \/ receiveGate(t) \/ receiveRequest(t) \/ readReply(t)
            \/ receiveNotify(t) \/ notifyDispatch(t)
        \/ \E t \in Receivers \cup {"c1"} : Return(t)

SpecDispatch == Init /\ [][NextDispatch]_vars
\* ---- specification: peer calls and the responses that answer them ---------
\* The facade runs in a server, where a handler calls the client on a session
\* (known or not), or in a client, where two goroutines call the server.
\* Response frames with any id arrive at any time; the calls' contexts can be
\* cancelled.
NextCall ==
    /\ UNCHANGED <<histVars, shutVars>>
    /\  \/ NewServer \/ NewClient
        \/ side = "server" /\ CreateSession
        \/ \E s \in created \cup {UnknownSessionID} : callClient("k1", s, Ping, TRUE)
        \/ \E t \in Callers :
            \/ callServer(t, ToolsCall, TRUE)
            \/ serverSend(t) \/ clientSend(t) \/ againInitialization(t)
            \/ callCtxDone(t) \/ callReply(t) \/ callReturn(t)
        \/ \E i \in CallIDs :
            \/ \E s \in created \cup {NoSessionID} : serverReceive("r1", s, i)
            \/ clientReceive("r1", i)
        \/ receiveResponse("r1") \/ deliverResponse("r1")
        \/ \E t \in Callers \cup {"r1"} : Return(t)

SpecCall == Init /\ [][NextCall]_vars

\* ---- specification: concurrent senders into one outbox ---------------------
\* Two goroutines enqueue messages that can be told apart, each message at
\* most once, while a GET stream dequeues; the history variables record the
\* order in which the channel sends and the channel receives happen.  The
\* order is a matter of one State's channel, so one session is followed.
Range(q) == {q[i] : i \in 1..Len(q)}

Unsent(s) == FifoMsgs \ (Range(enqueued[s]) \cup {th[u].msg : u \in Senders})

FifoSend(t) ==
    /\ enqueueSend(t)
    /\ enqueued' = [enqueued EXCEPT ![th[t].sid] =
            IF th'[t].res = "nil" THEN Append(@, th[t].msg) ELSE @]
    /\ UNCHANGED dequeued

FifoRecv(t) ==
    /\ dequeueRecv(t)
    /\ dequeued' = [dequeued EXCEPT ![th[t].sid] =
            IF th'[t].res = "nil" THEN Append(@, th'[t].msg) ELSE @]
    /\ UNCHANGED enqueued

NextFifo ==
    \/ UNCHANGED <<shutVars, cliVars, stopVars>> /\ \E t \in Senders : FifoSend(t)
    \/ UNCHANGED <<shutVars, cliVars, stopVars>> /\ \E t \in Consumers : FifoRecv(t)
    \/ /\ UNCHANGED <<histVars, shutVars>>
       /\ \/ CreateSessionUpTo(1)
          \/ \E t \in Consumers :
              \/ \E s \in created : OpenMessageQueueForSend(t, s)
              \/ OpenLock(t) \/ openMessageQueueForSend(t)
              \/ \E s \in created : DequeueMessageForSend(t, s, TRUE)
              \/ dequeueMessage(t) \/ dequeueCtxDone(t)
          \/ \E t \in Senders :
              \/ \E s \in created : \E m \in Unsent(s) : EnqueueMessageForSend(t, s, m, TRUE)
              \/ enqueueMessage(t) \/ enqueueCtxDone(t)
          \/ \E t \in Senders \cup Consumers : Return(t)

SpecFifo == Init /\ [][NextFifo]_vars

\* ---- specification: the heartbeat sweep and the frames that keep a session alive
\* Time passes, initialize requests arrive on the session, the heartbeat
\* goroutine sweeps, and shutdown may begin.  The sweep decides session by
\* session, so one session is followed.
NextHeartbeat ==
    /\ UNCHANGED <<histVars, shutVars>>
    /\  \/ \E d \in 1..(MaxTime - 1) : SetMaxIdleTime(d)
        \/ Tick
        \/ CreateSessionUpTo(1)
        \/ ShutdownBegin
        \/ \E t \in Sweepers :
            \/ Heartbeat(t) \/ HeartbeatVisit(t) \/ HeartbeatClose(t)
            \/ CloseLock(t) \/ StateClose(t) \/ CloseStore(t)
        \/ \E s \in created : receive("r1", s, 1, Initialize)
        \/ receiveGate("r1") \/ receiveRequest("r1") \/ readReply("r1")
        \/ \E t \in Sweepers \cup {"r1"} : Return(t)

SpecHeartbeat == Init /\ [][NextHeartbeat]_vars

\* ---- specification: inbound frames and the activity time ---------------------
\* Time passes while one receiver handles requests and notifications of every
\* kind on the sessions.
NextActivity ==
    /\ UNCHANGED <<histVars, shutVars>>
    /\  \/ Tick
        \/ CreateSession
        \/ \E s \in created, f \in RequestFrames \cup NotifyFrames :
                receive("r1", s, f[1], f[2])
        \/ receiveGate("r1") \/ receiveRequest("r1") \/ readReply("r1")
        \/ receiveNotify("r1") \/ notifyDispatch("r1")
        \/ Return("r1")

SpecActivity == Init /\ [][NextActivity]_vars

\* ---- specification: POST and DELETE handlers on the sessions -----------------
\* Two DELETE handlers and one POST handler run concurrently.
NextHttp ==
    /\ UNCHANGED <<histVars, shutVars>>
    /\  \/ CreateSession
        \/ \E t \in Closers :
            \/ \E s \in created \cup {UnknownSessionID, NoSessionID} : handleDelete(t, s)
            \/ CloseLock(t) \/ StateClose(t) \/ CloseStore(t)
        \/ \E s \in created \cup {UnknownSessionID}, f \in RequestFrames \cup NotifyFrames :
                receive("r1", s, f[1], f[2])
        \/ receiveGate("r1") \/ receiveRequest("r1") \/ handlerFails("r1")
        \/ readReply("r1")
        \/ receiveNotify("r1") \/ notifyDispatch("r1")
        \/ \E t \in Closers \cup {"r1"} : Return(t)

SpecHttp == Init /\ [][NextHttp]_vars

\* ---- specification: frames of every shape through receive --------------------
\* The process is a server or a client; one connection hands frames of every
\* shape to its receive.
NextFrames ==
    /\ UNCHANGED <<histVars, shutVars>>
    /\  \/ NewServer \/ NewClient
        \/ side = "server" /\ CreateSession
        \/ \E f \in Frames :
            \/ \E s \in created \cup {NoSessionID} : receiveFrame("r1", s, f)
            \/ clientReceiveFrame("r1", f)
        \/ receiveGate("r1") \/ receiveRequest("r1") \/ readReply("r1")
        \/ receiveNotify("r1") \/ notifyDispatch("r1")
        \/ receiveResponse("r1") \/ clientHandle("r1")
        \/ Return("r1")

SpecFrames == Init /\ [][NextFrames]_vars

\* ---- specification: the reply built for a request ----------------------------
\* A server or a client answers requests with every kind of id, for every
\* outcome of the handler.
NextReply ==
    /\ UNCHANGED <<histVars, shutVars>>
    /\  \/ NewServer \/ NewClient
        \/ \E w \in WireIDs, err \in HandlerErrs : replyRequest("r1", w, err)
        \/ Return("r1")

SpecReply == Init /\ [][NextReply]_vars

\* ---- specification: requests against the drain of Shutdown -------------------
\* Two connections hand ping requests to receive while Shutdown sets its flag
\* and its goroutine waits for the requests in flight.
NextDrain ==
    \/ /\ UNCHANGED <<histVars, shutVars>>
       /\ \/ ShutdownBegin
          \/ \E t \in Receivers :
              \/ readReply(t)
              \/ th[t].h \in {"", "exited", "panicked"} /\ Return(t)
    \/ /\ UNCHANGED <<histVars, transVars, regVars>>
       /\ \/ \E t \in Receivers :
              \/ receiveDuring(t, Ping)
              \/ receiveAdd(t) \/ receiveCheck(t) \/ receiveRelease(t)
              \/ handlerWrite(t) \/ handlerDone(t) \/ handlerRelease(t)
          \/ \E t \in Waiters : waiterWait(t) \/ waiterWake(t) \/ waiterCancel(t)

SpecDrain == Init /\ [][NextDrain]_vars

\* ---- specification: graceful shutdown of the streamable HTTP transport -------
\* The transport is built with or without its own HTTP server; Run is
\* started, sessions are created and sent to, and Shutdown is called once,
\* with a user context that may complete at any time.
Shutdowners == Shutters \cup Hooks

NextTransport ==
    \/ /\ UNCHANGED <<histVars, regVars>>
       /\ \/ \E mode \in {"own", "nil"} : NewTransport(mode)
          \/ \E t \in Runners : Run(t) \/ RunReturn(t)
          \/ httpRequestBegin \/ httpRequestEnd
          \/ UserCtxDone
          \/ \E t \in Producers :
              \/ \E s \in created : Send(t, s, "m1", FALSE)
              \/ SendReturn(t)
          \/ \E t \in Shutters :
              \/ Shutdown(t) \/ transportShutdown(t) \/ httpShutdownPoll(t)
              \/ shutdownReturn(t)
          \/ \E t \in Shutdowners :
              \/ shutdownWait(t) \/ shutdownCancel(t) \/ shutdownSendsWait(t)
              \/ shutdownCloseAll(t)
          \/ \E t \in Waiters : waiterWait(t) /\ UNCHANGED transVars
          \/ \E t \in Waiters : waiterCancel(t) /\ UNCHANGED transVars
    \/ /\ UNCHANGED <<histVars, shutVars>>
       /\ \/ httpSvr # "" /\ ~inShutdown /\ CreateSession
          \/ \E t \in Consumers :
              \/ \E s \in created : OpenMessageQueueForSend(t, s)
              \/ OpenLock(t) \/ openMessageQueueForSend(t)
              \/ Return(t)
          \/ \E t \in Producers : enqueueMessage(t) \/ enqueueSend(t)
          \/ \E t \in Shutdowners :
              CloseAllNext(t) \/ CloseLock(t) \/ StateClose(t) \/ CloseStore(t)

SpecTransport == Init /\ [][NextTransport]_vars

\* Scheduling: a goroutine that can take a step takes it.  A wait on inFlySend
\* is woken by the Done that brings the counter to zero and a reader is not
\* starved of the session's mutex, so these steps are strongly fair.
shutdownStep(t) ==
    \/ /\ UNCHANGED <<histVars, regVars>>
       /\ \/ transportShutdown(t) \/ httpShutdownPoll(t) \/ shutdownReturn(t)
          \/ shutdownWait(t) \/ shutdownCancel(t) \/ shutdownSendsWait(t)
          \/ shutdownCloseAll(t)
    \/ /\ UNCHANGED <<histVars, shutVars>>
       /\ CloseAllNext(t) \/ CloseLock(t) \/ StateClose(t) \/ CloseStore(t)

sendStep(t) ==
    \/ UNCHANGED <<histVars, regVars>> /\ SendReturn(t)
    \/ UNCHANGED <<histVars, shutVars>> /\ (enqueueMessage(t) \/ enqueueSend(t))

waiterStep(t) ==
    UNCHANGED <<histVars, transVars, regVars>> /\ (waiterWait(t) \/ waiterCancel(t))

openStep(t) ==
    UNCHANGED <<histVars, shutVars>>
        /\ (OpenLock(t) \/ openMessageQueueForSend(t) \/ Return(t))

FairTransport ==
    /\ \A t \in Consumers : WF_vars(openStep(t))
    /\ \A t \in Shutters \cup Hooks : SF_vars(shutdownStep(t))
    /\ \A t \in Producers : SF_vars(sendStep(t))
    /\ \A t \in Waiters : WF_vars(waiterStep(t))

SpecTransportLive == SpecTransport /\ FairTransport

\* ---- specification: requests whose context ends while they are handled ------
NextShield ==
    \/ /\ UNCHANGED <<histVars, shutVars>>
       /\ \/ CreateSession
          \/ \E t \in Receivers :
              \/ readReply(t)
              \/ th[t].h \in {"", "exited"} /\ Return(t)
    \/ /\ UNCHANGED <<histVars, transVars, regVars>>
       /\ \E t \in Receivers :
              \/ receiveAdd(t) \/ receiveCheck(t)
              \/ handlerWrite(t) \/ handlerDone(t)
    \/ /\ UNCHANGED histVars
       /\ \E t \in Receivers :
              \/ \E s \in {NoSessionID} \cup created : receivePost(t, s, Ping)
              \/ \E err \in {"context canceled", "context deadline exceeded"} :
                    RequestCtxDone(t, err)

SpecShield == Init /\ [][NextShield]_vars

\* ---- specification: client senders whose session was closed -----------------
SendErrs == {"nil", "send error", "ErrSessionClosed"}

NextReinit ==
    /\ UNCHANGED <<histVars, shutVars>>
    /\ \/ NewClient
       \/ \E t \in Callers :
            \/ sendMsgWithRequest(t)
            \/ \E err \in SendErrs : sendReturns(t, err)
            \/ againStore(t) \/ againLock(t) \/ againCheck(t)
            \/ \E err \in SendErrs : initialization(t, err)
            \/ Return(t)

SpecReinit == Init /\ [][NextReinit]_vars

\* ---- specification: list-changed broadcasts --------------------------------
\* Sessions are created and open their outboxes while the application
\* registers and deregisters tools and resource templates.
NextBroadcast ==
    \/ /\ UNCHANGED <<histVars, drainVars, transVars>>
       /\ \/ WithCapabilities(NoCapabilities)
          \/ \E t \in Registrars :
              \/ \E kind \in Kinds, add \in BOOLEAN : RegisterOrUnregister(t, kind, add)
              \/ RangeSessions(t) \/ RangeDone(t)
    \/ /\ UNCHANGED <<histVars, shutVars>>
       /\ \/ CreateSessionUpTo(MaxPeers)
          \/ \E t \in Registrars : Return(t)
          \/ \E t \in Consumers :
              \/ \E s \in created : OpenMessageQueueForSend(t, s)
              \/ OpenLock(t) \/ openMessageQueueForSend(t)
              \/ Return(t)

SpecBroadcast == Init /\ [][NextBroadcast]_vars

\* ---- specification: resources/updated notifications ------------------------
\* Sessions subscribe to and unsubscribe from resources while the application
\* reports resources as updated.
NextUpdated ==
    \/ /\ UNCHANGED <<histVars, drainVars, transVars>>
       /\ \/ WithCapabilities(NoCapabilities)
          \/ \E s \in created, uri \in SubscribedURIs, on \in BOOLEAN :
                Subscribe(s, uri, on)
          \/ \E t \in Registrars :
              \/ \E uri \in URIs : SendNotification4ResourcesUpdated(t, uri)
              \/ RangeSessions(t) \/ RangeDone(t)
    \/ /\ UNCHANGED <<histVars, shutVars>>
       /\ \/ CreateSessionUpTo(MaxPeers)
          \/ \E t \in Registrars : Return(t)
          \/ \E t \in Consumers :
              \/ \E s \in created : OpenMessageQueueForSend(t, s)
              \/ OpenLock(t) \/ openMessageQueueForSend(t)
              \/ Return(t)

SpecUpdated == Init /\ [][NextUpdated]_vars

\* ==== properties ============================================================

\* C1: once a call to CloseSession(s) has returned to any caller (a direct
\* caller, or the Range callback of CloseAllSessions), s is not active and s
\* is in the closed set.
C1_ClosedOnceCloseReturns ==
    \A t \in Closers :
        (th[t].pc \in {"cs_done", "ca_next"} /\ th[t].sid \in created)
            => (~IsActiveSession(th[t].sid) /\ IsClosedSession(th[t].sid))

\* C2: in every reachable state every created session id is in exactly one
\* of the active set and the closed set.
C2_ExactlyOneOfActiveClosed ==
    \A s \in created : IsActiveSession(s) # IsClosedSession(s)

C4_ReadyImpliesInitRequest ==
    \A s \in SessionIDs : ready[s] => receivedInitRequest[s]

\* C4 witness: a session became ready through notifications/initialized.
C4_Witness ==
    \E t \in Receivers :
        /\ th[t].pc = "rcv_done" /\ th[t].method = NotificationInitialized
        /\ th[t].res = "nil" /\ th[t].sid # NoSessionID /\ ready[th[t].sid]

Errors == {"session already closed", "ErrQueueNotOpened", "ErrLackSession", "ctx.Err"}

\* C5: at most one response is ever delivered into the reply slot of a call,
\* however the response frames interleave with the caller's consume and remove
\* steps.
C5_AtMostOneDelivery ==
    \A e \in Endpoints : \A i \in CallIDs : delivered[e][i] <= 1

C7_PendingOnlyInProgress ==
    /\ \A e \in Endpoints : \A i \in reqID2respChan[e] :
            \E t \in Callers :
                /\ th[t].pc \in {"call_send", "reinit_lock", "call_wait", "call_remove"}
                /\ th[t].sid = e
                /\ i \in {th[t].fid, th[t].outer}
    /\ \A t \in Callers :
            (th[t].pc = "call_done" /\ th[t].fid # 0)
                => th[t].fid \notin reqID2respChan[th[t].sid]

C7_Witness ==
    \E t \in Callers :
        /\ th[t].pc = "call_done"
        /\ th[t].fid # 0
        /\ th[t].res = "ctx.Err"
        /\ reqID2respChan[th[t].sid] # {}

\* C8: while a session's closed flag is true, no step adds a message to its
\* outbox and every enqueue call that finishes returns an error.
C8_EnqueueOnClosedFails ==
    [][\A s \in SessionIDs : closed[s] =>
          /\ Len(sendChan'[s].buf) <= Len(sendChan[s].buf)
          /\ \A t \in Producers :
                (th[t].pc # "enq_done" /\ th'[t].pc = "enq_done" /\ th'[t].sid = s)
                    => th'[t].res \in Errors]_vars

\* C8 witness: enqueueMessage itself refused a message on a closed session
\* whose outbox channel is open (the queue was opened by a GET that had
\* looked the session up before the close).
C8_Witness ==
    \E t \in Producers :
        /\ th[t].pc = "enq_done" /\ th[t].res = "session already closed"
        /\ closed[th[t].sid]
        /\ sendChan[th[t].sid].open /\ ~sendChan[th[t].sid].closed

\* C9: on a closed session a DequeueMessageForSend call returns an error
\* (other than the caller's own context error) only once the outbox is empty.
C9_DrainedBeforeError ==
    \A t \in Consumers :
        (th[t].pc = "deq_done" /\ th[t].sid \in created /\ closed[th[t].sid]
            /\ th[t].res \in {"ErrSendEOF", "ErrLackSession", "ErrQueueNotOpened"})
            => sendChan[th[t].sid].buf = <<>>

\* C10: no send happens on a closed outbox channel: nothing panics, and the
\* channel is never closed while an enqueuer is inside its select.
C10_NoSendOnClosedChannel ==
    /\ ~panicked
    /\ \A t \in Producers :
          th[t].pc = "enq_select" => ~sendChan[th[t].sid].closed /\ ~closed[th[t].sid]

\* C10 witness: the closer has announced itself on the lock and waits while
\* an enqueuer sits in its select on the same session.
C10_Witness ==
    \E t \in Producers :
        /\ th[t].pc = "enq_select"
        /\ th["c1"].pc = "cs_close" /\ th["c1"].sid = th[t].sid
        /\ mu[th[t].sid].writer = "c1"

\* C11: closing is idempotent.  For every session State.Close runs at most
\* once (at most one goroutine ever holds the session's state for closing, and
\* no channel is closed twice), and a CloseSession call that finds the id
\* already removed changes nothing.
C11_CloseAtMostOnce ==
    /\ [](/\ ~panicked
          /\ \A s \in SessionIDs :
                Cardinality({t \in Closers : th[t].sid = s
                                /\ th[t].pc \in {"cs_lock", "cs_close", "cs_store"}})
                    + (IF s \in closedSessions THEN 1 ELSE 0) <= 1)
    /\ [][\A t \in Closers :
            (th[t].pc = "idle" /\ th'[t].pc = "cs_done")
                => UNCHANGED <<activeSessions, closedSessions, closed, sendChan, mu>>]_vars

\* C11 witness: two CloseSession calls on the same session have returned, one
\* of them having closed it with its outbox open.
C11_Witness ==
    /\ th["c1"].pc = "cs_done" /\ th["c2"].pc = "cs_done"
    /\ th["c1"].sid = th["c2"].sid
    /\ th["c1"].sid \in closedSessions
    /\ sendChan[th["c1"].sid].closed

\* C12: the outbox never holds more than its capacity; an enqueue that has
\* reached its select returns success only by appending its message to a
\* buffer that had room, and returns otherwise only with the error of its own
\* completed context, adding nothing; and while a session is active a message
\* leaves its outbox only by being handed to a dequeue call.
C12_FullOutboxBlocks ==
    /\ [](\A s \in SessionIDs : Len(sendChan[s].buf) <= QueueCap)
    /\ [][\A t \in Producers :
            (th[t].pc = "enq_select" /\ th'[t].pc = "enq_done") =>
                LET s == th[t].sid IN
                IF th'[t].res = "nil"
                THEN /\ Len(sendChan[s].buf) < QueueCap
                     /\ sendChan'[s].buf = Append(sendChan[s].buf, th[t].msg)
                ELSE /\ th'[t].res = "ctx.Err" /\ th[t].ctx
                     /\ sendChan'[s] = sendChan[s]]_vars
    /\ [][\A s \in SessionIDs :
            (s \in activeSessions /\ Len(sendChan'[s].buf) < Len(sendChan[s].buf)) =>
                \E g \in Consumers :
                    /\ th[g].pc = "deq_select" /\ th'[g].pc = "deq_done"
                    /\ th'[g].res = "nil" /\ th'[g].msg = Head(sendChan[s].buf)
                    /\ sendChan'[s].buf = Tail(sendChan[s].buf)]_vars

\* C12 witness: an enqueue that found the outbox full gave up with its
\* context error; the outbox is still full and the session active.
C12_Witness ==
    \E t \in Producers :
        /\ th[t].pc = "enq_done" /\ th[t].res = "ctx.Err"
        /\ th[t].sid \in activeSessions
        /\ Len(sendChan[th[t].sid].buf) = QueueCap

\* C13: within one session the messages are dequeued in the order in which
\* their sends into the outbox completed, whatever the interleaving of the
\* concurrent senders: the dequeued messages, followed by the ones still
\* buffered, are the completed sends in their order.
C13_Fifo ==
    \A s \in SessionIDs : enqueued[s] = dequeued[s] \o sendChan[s].buf

\* C13 witness: a message has been dequeued while both senders are inside
\* their selects with the two other messages.
C13_Witness ==
    \E s \in SessionIDs :
        /\ Len(dequeued[s]) >= 1
        /\ \A t \in Senders : th[t].pc = "enq_select" /\ th[t].sid = s

\* C14: a session visited by a heartbeat sweep is closed by that sweep exactly
\* when it is expired (maxIdleTime > 0 and the sweep's time minus the
\* lastActiveAt it read exceeds maxIdleTime) or detection failed three times
\* in a row; one successful detection keeps it, and maxIdleTime = 0 never
\* expires a session.
C14_SweepClosesIff ==
    /\ [](\A t \in Sweepers :
            th[t].pc \in {"hb_close", "cs_lock", "cs_close", "cs_store"}
                => \/ maxIdleTime > 0 /\ th[t].now - th[t].seen > maxIdleTime
                   \/ th[t].tries = <<FALSE, FALSE, FALSE>>)
    /\ [][\A t \in Sweepers :
            th[t].pc = "hb_next" /\ th'[t].pc \in {"hb_next", "hb_close"} /\ th'[t] # th[t]
                => /\ th'[t].seen = lastActiveAt[th'[t].sid]
                   /\ (th'[t].pc = "hb_close") <=>
                        \/ maxIdleTime > 0 /\ th'[t].now - th'[t].seen > maxIdleTime
                        \/ th'[t].tries = <<FALSE, FALSE, FALSE>>
                   /\ (maxIdleTime = 0 /\ \E i \in 1..Len(th'[t].tries) : th'[t].tries[i])
                        => th'[t].pc = "hb_next"]_vars

\* C14 witness: the sweep is closing a session that it found expired, without
\* having run a detection.
C14_Witness ==
    \E t \in Sweepers :
        /\ th[t].pc = "cs_close"
        /\ maxIdleTime > 0 /\ th[t].now - th[t].seen > maxIdleTime
        /\ th[t].tries = <<>>

\* C15: the step that handles an inbound frame other than a ping, on an active
\* session, sets the session's lastActiveAt to the current time, whether the
\* frame is a request that gets its reply or a notification handled without
\* error.
C15_NonPingFrameUpdates ==
    [][\A t \in Receivers :
        /\ \/ th[t].pc = "rcv_wait" /\ th[t].h = "running" /\ th'[t].h = "replied"
           \/ th[t].pc = "rcv_dispatch" /\ th'[t].pc = "rcv_done" /\ th'[t].res = "nil"
        /\ th[t].method # Ping
        /\ th[t].sid \in activeSessions
        => lastActiveAt'[th[t].sid] = clock]_vars

\* C16: a POST that arrives after a DELETE for its session has been answered
\* gets 404.
C16_PostAfterCloseIs404 ==
    [][\A r \in Receivers, c \in Closers :
        /\ th[c].pc = "del_done" /\ th[c].sid \in created
        /\ th[r].pc = "idle" /\ th'[r].pc # "idle" /\ th'[r].sid = th[c].sid
        => th'[r].pc = "rcv_done" /\ handlePost(th'[r].res) = 404]_vars

\* C17: a DELETE naming a session id the server never created is answered
\* with 400.
C17_DeleteUnknownIs400 ==
    \A t \in Closers :
        th[t].pc = "del_done" /\ th[t].sid = UnknownSessionID
            => deleteStatus(th[t].sid) = 400

\* C18: the server's and the client's receive put every frame into exactly one
\* branch: no id, notification; an id but no method, response; both, request.
C18_OneBranch ==
    \A t \in Receivers :
        LET f == th[t].frame
            b == th[t].branch IN
        f # NoFrame /\ b # "" =>
            /\ b \in {"rcv_notify", "cl_notify", "rcv_response", "rcv_request", "cl_request"}
            /\ b \in {"rcv_notify", "cl_notify"} <=> ~hasID(f)
            /\ b = "rcv_response" <=> (hasID(f) /\ ~hasMethod(f))
            /\ b \in {"rcv_request", "cl_request"} <=> (hasID(f) /\ hasMethod(f))
            /\ th[t].pc \in {"rcv_notify", "cl_notify", "rcv_response", "rcv_request",
                             "cl_request"} => th[t].pc = b
            /\ th[t].pc \in {"rcv_dispatch"} => b = "rcv_notify"
            /\ th[t].pc \in {"rcv_wait"} => b = "rcv_request"

\* C18 witness: a frame with an id and no method is in the response branch of
\* the client.
C18_Witness ==
    \E t \in Receivers :
        /\ side = "client"
        /\ th[t].pc = "rcv_response"
        /\ th[t].frame.id = "null" /\ th[t].frame.method = "absent"

\* C19: a frame that lacks the jsonrpc tag causes no handler to run and no
\* session state to change: the receiver that holds such a frame never sets a
\* session ready.
C19_TaglessFrameChangesNothing ==
    [][\A t \in Receivers :
        /\ side = "server"
        /\ th[t].frame.body = "object" /\ th[t].frame.jsonrpc = "absent"
        /\ th'[t] # th[t]
        => ready' = ready]_vars

\* C20: when receive has returned a reply channel, the transport reads one
\* reply frame from it and answers 200, whatever the handler did.
C20_OneReplyFrame ==
    \A t \in Receivers :
        th[t].pc = "rcv_done" /\ th[t].h # ""
            => th[t].res = "reply" /\ handlePost(th[t].res) = 200

\* C21: the reply carries the request's id; it is a result when the handler
\* returned no error, else an error with the code of the first matching rule:
\* MethodNotFound, InvalidRequest, ParseError, and InternalError otherwise.
C21_ReplyForRequest ==
    \A t \in Receivers :
        th[t].reply # NoReply =>
            /\ th[t].reply.id = th[t].wid
            /\ th[t].res = "nil" => th[t].reply.kind = "result"
            /\ th[t].res = "error" =>
                /\ th[t].reply.kind = "error"
                /\ th[t].reply.code =
                     IF "ErrMethodNotSupport" \in th[t].todo THEN -32601
                     ELSE IF "ErrRequestInvalid" \in th[t].todo THEN -32600
                     ELSE IF "ErrJSONUnmarshal" \in th[t].todo THEN -32700
                     ELSE -32603

\* C22: a request frame passed to receive after Shutdown has set its flag is
\* rejected, no handler goroutine is spawned for it, and when receive returns
\* the frame has left the in-flight counter as it found it.
C22_RejectedAfterShutdown ==
    \A t \in Receivers :
        th[t].dup =>
            /\ th[t].h = ""
            /\ th[t].pc = "rcv_done" =>
                  th[t].res = "server already shutdown" /\ th[t].held = 0

\* C23: the waiter never cancels serverCtx while a handler goroutine spawned
\* by receive is still running; every such handler is counted in
\* inFlyRequest from before the shutdown check until its Done.
C23_DrainedMeansNoHandler ==
    /\ drained => \A t \in Receivers : th[t].h \notin {"running", "written"}
    /\ inFlyRequest >= Cardinality({t \in Receivers : th[t].h \in {"running", "written"}})

\* C23 witness: the waiter registered while a handler was running, was woken
\* by the handler's Done and has cancelled serverCtx.
C23_Witness ==
    /\ drained
    /\ \E t \in Receivers : th[t].h = "exited" /\ th[t].seen = 1

\* C24: when Shutdown returns without error, every session is closed.
C24_ReturnedMeansClosed ==
    \A t \in Shutters :
        th[t].pc = "sd_done" /\ th[t].res = "nil"
            => activeSessions = {} /\ created \subseteq closedSessions

\* C25: once the context given to Shutdown is done, Shutdown returns, with
\* either construction of the transport.
C25_ShutdownBoundedByUserCtx ==
    userDone ~> (\A t \in Shutters : th[t].pc = "sd_done")

\* C26: when Run has returned, Shutdown has completed: it has returned, no
\* Send is in flight and every session is closed.
C26_RunReturnsAfterShutdown ==
    \A u \in Runners :
        th[u].pc = "run_done"
            => /\ \A t \in Shutters : th[t].pc = "sd_done"
               /\ inFlySend = 0
               /\ activeSessions = {} /\ created \subseteq closedSessions

C28_UpdatedGoesToSubscribers ==
    /\ [](\A t \in Registrars :
            th[t].pc = "reg_done" /\ th[t].res = "ErrServerNotSupport"
                => \A s \in activeSessions : th[t].msg \notin subscribedResources[s])
    /\ [][\A t \in Registrars :
            th[t].pc = "bc_range" /\ th[t].method = ResourcesUpdated
                => \A s \in PeerIDs :
                    /\ s \in th'[t].sent \ th[t].sent
                        => th[t].msg \in subscribedResources[s]
                    /\ s \in th[t].todo \ th'[t].todo /\ s \notin th'[t].sent
                        => th[t].msg \notin subscribedResources[s]]_vars

\* An update of u1 has gone to session 1, subscribed to it, and not to
\* session 2, which is not.
C28_Witness ==
    \E t \in Registrars :
        /\ th[t].pc = "reg_done" /\ th[t].method = ResourcesUpdated /\ th[t].msg = "u1"
        /\ th[t].snap = {1, 2} /\ th[t].sent = {1} /\ th[t].errList = {}
        /\ "u1" \in subscribedResources[1]
        /\ subscribedResources[2] = {}

\* C29: while a handler runs, its context reports no error whatever became of
\* the request's context, and carries the session id and the values handlePost
\* put in; the handler is counted in inFlyRequest, and the end of the
\* request's context leaves the handler running and the counter as it is.
C29_HandlerCtxShielded ==
    /\ [](\A t \in Receivers :
            th[t].h = "running"
                => /\ Err(handlerCtx(t)) = "nil"
                   /\ Value(handlerCtx(t), "sessionIDKey") = th[t].sid
                   /\ Value(handlerCtx(t), "SessionIDForReturnKey") = "SessionIDForReturn"
                   /\ th[t].held = 1
                   /\ inFlyRequest >= Cardinality({u \in Receivers : th[u].h = "running"}))
    /\ [][\A t \in Receivers :
            th[t].h = "running" /\ th'[t].rctx # th[t].rctx
                => th'[t].h = "running" /\ inFlyRequest' = inFlyRequest]_vars

\* The request's context was cancelled while the handler of a request of
\* session 1 runs.
C29_Witness ==
    \E t \in Receivers :
        th[t].h = "running" /\ th[t].rctx = "context canceled" /\ th[t].sid = 1

\* C30: a sender that has met ErrSessionClosed performs no handshake once
\* another sender's handshake has restored ready.
C30_NoHandshakeOnceRestored ==
    \A t \in Callers : th[t].restored => th[t].handshakes = 0
\* ---- specification: the client's handshake ------------------------------------
\* NewClient runs the handshake; afterwards senders whose session was closed
\* run it again under initializationMu.
InitErrs == {"call error", "failed to unmarshal response", "ErrSessionClosed"}

NextHandshake ==
    /\ UNCHANGED <<histVars, shutVars>>
    /\ \/ StartClient("k1")
       \/ \E t \in Callers :
            \/ sendMsgWithRequest(t)
            \/ \E err \in SendErrs : sendReturns(t, err)
            \/ againStore(t) \/ againLock(t) \/ againCheck(t)
            \/ \E outcome \in Versions \cup InitErrs : initializeReply(t, outcome)
            \/ versionCheck(t)
            \/ \E sendOK \in BOOLEAN : sendNotification4Initialized(t, sendOK)
            \/ initializationReady(t) \/ againReady(t)
            \/ Return(t)

SpecHandshake == Init /\ [][NextHandshake]_vars

\* C31: the client's ready flag turns true only in a goroutine that has
\* received an initialize result with a supported protocol version and has
\* sent notifications/initialized; an initialization that ends on an
\* unsupported version or on a failed send of the notification returns the
\* error with ready false, and on the version error without having sent the
\* notification.
C31_ReadyOnlyAfterHandshake ==
    [][/\ (clientReady' /\ ~clientReady) =>
            \E t \in Callers : /\ th[t].msg \in SupportedVersion
                               /\ NotificationInitialized \in th[t].sent
                               /\ th'[t] # th[t]
       /\ \A t \in Callers :
            (th[t].pc \in {"init_version", "init_notify"} /\ th'[t].pc = "call_done") =>
                /\ th'[t].res \in {"protocol version not supported",
                                   "failed to send InitializedNotification"}
                /\ ~clientReady'
                /\ (th[t].pc = "init_version" => /\ th[t].msg \notin SupportedVersion
                                                 /\ th'[t].sent = {})]_vars

\* C31 witness: a re-initialization has ended on an unsupported protocol
\* version, after NewClient had set ready.
C31_Witness ==
    \E t \in Callers :
        /\ th[t].pc = "call_done" /\ th[t].res = "protocol version not supported"
        /\ th[t].handshakes = 1
        /\ ~clientReady

\* ---- specification: the client's sends while its session is closed ------------
\* NewClient's handshake creates the session; the server may close it; two
\* goroutines send requests, and re-initialize when the session is closed.
NextResend ==
    \/ /\ UNCHANGED <<enqueued, dequeued, sse, stopVars, shutVars>>
       /\ \E t \in Callers : initializeSend(t)
    \/ /\ UNCHANGED <<histVars, shutVars>>
       /\ \/ StartClient("k1")
          \/ \E s \in created : CloseSession("c1", s)
          \/ CloseLock("c1") \/ StateClose("c1") \/ CloseStore("c1")
          \/ \E t \in Callers :
                \/ sendMsgWithRequest(t) \/ transportSend(t)
                \/ againStore(t) \/ againLock(t) \/ againCheck(t)
                \/ versionCheck(t)
                \/ \E sendOK \in BOOLEAN : sendNotification4Initialized(t, sendOK)
                \/ initializationReady(t) \/ againReady(t)
          \/ \E t \in Callers \cup {"c1"} : Return(t)

SpecResend == Init /\ [][NextResend]_vars

\* C36: a client call whose send starts a re-initialization terminates: no
\* goroutine waits in againInitialization for initializationMu while it holds
\* the mutex itself, also when the handshake's own initialize request is
\* answered with SessionClosed.
C36_NeverWaitsForOwnMutex ==
    \A t \in Callers : th[t].pc = "reinit_mu" => initializationMu # t

\* C32: an error met while a notification is processed (the handler fails,
\* the method is not supported) is only logged: the POST that brought the
\* frame is answered 202, as for a notification processed without error.
C32_NotifyErrorIsOnlyLogged ==
    \A t \in Receivers :
        (/\ th[t].pc = "rcv_done"
         /\ classify(th[t].fid, th[t].method) = "rcv_notify"
         /\ th[t].res \in {"ErrMethodNotSupport", "init request not received"})
            => handlePost(th[t].res) = 202

\* C33: a notifications/cancelled frame that passed the session gate (the
\* session exists and is ready) is accepted by the dispatch: receive returns
\* no error and the POST is answered 202.
C33_CancelledIsAccepted ==
    [][\A t \in Receivers :
        (/\ th[t].pc = "rcv_dispatch" /\ th[t].method = NotificationCancelled
         /\ th[t].sid # NoSessionID /\ ready[th[t].sid]
         /\ th'[t].pc = "rcv_done")
            => th'[t].res = "nil" /\ handlePost(th'[t].res) = 202]_vars

\* ---- specification: Shutdown calls and the sweep task -------------------------
\* Sessions are created, the sweep task ticks, and the application calls
\* Server.Shutdown, possibly more than once.
NextStop ==
    \/ /\ UNCHANGED <<enqueued, dequeued, cliVars, shutVars>>
       /\ \/ \E t \in Shutters : shutdownStore(t) \/ StopHeartbeat(t) \/ shutdownReturns(t)
          \/ \E t \in Sweepers : HeartbeatStop(t)
    \/ /\ UNCHANGED <<histVars, shutVars>>
       /\ \/ CreateSession
          \/ Tick
          \/ \E t \in Sweepers :
                \/ Heartbeat(t) \/ HeartbeatVisit(t) \/ HeartbeatClose(t)
                \/ CloseLock(t) \/ StateClose(t) \/ CloseStore(t)
                \/ Return(t)

SpecStop == Init /\ [][NextStop]_vars

\* C34: the stop signal of the heartbeat is raised once and ends the sweep
\* task, and any sequence of Server.Shutdown calls raises it without
\* failure: no Shutdown call ends in a panic.
C34_StopRaisedWithoutFailure ==
    \A t \in Shutters : th[t].pc # "sd_panic"

\* ---- specification: the client's GET stream loop ------------------------------
\* The loop runs while a POST may bring the session id, the server answers the
\* GETs in every way, and the transport may be closed.
streamStep(t) ==
    /\ UNCHANGED <<activeSessions, closedSessions, created, outVars, dispVars, callVars,
                   timeVars, drainVars, regVars, enqueued, dequeued, stopVars,
                   httpSvr, listener, activeConns, userDone, inFlySend>>
    /\ \/ Start(t) \/ timerFires(t) \/ streamCtxDone(t) \/ streamEnds(t)
       \/ \E outcome \in GetOutcomes : streamTry(t, outcome)

NextStream ==
    \/ \E t \in Streamers : streamStep(t)
    \/ /\ UNCHANGED <<activeSessions, closedSessions, created, outVars, dispVars, callVars,
                      timeVars, drainVars, regVars, enqueued, dequeued, stopVars,
                      httpSvr, listener, activeConns, userDone, inFlySend>>
       /\ \/ \E sid \in SessionIDs : storeSessionID(sid)
          \/ cancel

\* The goroutine of the loop is scheduled, and a stream read on a cancelled
\* context fails.
SpecStream == Init /\ [][NextStream]_vars /\ \A t \in Streamers : WF_vars(streamStep(t))

\* C35: the GET loop sends a GET only after its timer fired, once per firing,
\* and only with a session id; a failed connection and a 404 keep the loop
\* waiting for the next firing, a 405 or another status outside 2xx ends it
\* for good, a 2xx status enters the stream and the end of the stream brings
\* the loop back to the timer; a cancelled transport context ends the loop.
C35_GetStreamLoop ==
    /\ [][\A t \in Streamers :
            LET tried == th'[t].tries # th[t].tries
                last == th'[t].tries[Len(th'[t].tries)] IN
            /\ tried => /\ th[t].h = "fired" /\ clientSessionID # NoSessionID
                        /\ Len(th'[t].tries) <= th[t].now
            /\ (th[t].pc = "sse_select" /\ th[t].h = "fired" /\ clientSessionID = NoSessionID
                    /\ th'[t] # th[t] /\ th'[t].pc # "sse_returned")
                => th'[t].pc = "sse_select" /\ th'[t].h = "armed" /\ ~tried
            /\ (tried /\ last \in {0, 404}) => th'[t].pc = "sse_select" /\ th'[t].h = "armed"
            /\ (tried /\ last \in {400, 405, 500}) => th'[t].pc = "sse_returned"
            /\ (tried /\ last = 200) => th'[t].pc = "sse_stream"
            /\ (th[t].pc = "sse_stream" /\ th'[t] # th[t])
                => th'[t].pc = "sse_select" /\ th'[t].h = "armed"
            /\ (th[t].pc # "sse_returned" /\ th'[t].pc = "sse_returned")
                => tctx \/ (tried /\ last \in {400, 405, 500})
            /\ th[t].pc = "sse_returned" => th'[t] = th[t]]_vars
    /\ \A t \in Streamers : (tctx /\ th[t].pc # "idle") ~> (th[t].pc = "sse_returned")

\* C35 witness: the loop was answered 404, tried again a second later and is
\* now reading an established stream.
C35_Witness ==
    \E t \in Streamers :
        /\ th[t].pc = "sse_stream"
        /\ th[t].tries = <<404, 200>>

\* ---- specification: peer calls pending while the session is closed ------------
\* A session completes the handshake; a tools/call handler ("r2") calls the
\* client with its shielded context and the application ("k1") with a
\* context that can complete; responses arrive ("r1"); the session is closed.
HandlerFrames == {<<1, Initialize>>, <<0, NotificationInitialized>>, <<1, ToolsCall>>}

NextPending ==
    \/ /\ UNCHANGED histVars
       /\ \E err \in {"context canceled"} : RequestCtxDone("r2", err)
    \/ /\ UNCHANGED <<histVars, shutVars>>
       /\ \/ NewServer
          \/ side = "server" /\ CreateSessionUpTo(1)
          \/ \E s \in created : CloseSession("c1", s)
          \/ CloseLock("c1") \/ StateClose("c1") \/ CloseStore("c1")
          \/ \E s \in created, f \in HandlerFrames : receive("r2", s, f[1], f[2])
          \/ receiveGate("r2") \/ receiveRequest("r2") \/ readReply("r2")
          \/ receiveNotify("r2") \/ notifyDispatch("r2")
          \/ handlerCallClient("r2") \/ handlerCallCtxDone("r2") \/ handlerResumes("r2")
          \/ \E s \in created : callClient("k1", s, Ping, TRUE)
          \/ callCtxDone("k1")
          \/ \E t \in {"k1", "r2"} : serverSend(t) \/ callReply(t) \/ callReturn(t)
          \/ \E i \in CallIDs, s \in created : serverReceive("r1", s, i)
          \/ receiveResponse("r1") \/ deliverResponse("r1")
          \/ Return("r1")
          \/ th["r2"].pc = "rcv_done" /\ th["r2"].method # ToolsCall /\ Return("r2")

SpecPending == Init /\ [][NextPending]_vars

\* C37: closing a session does not complete its pending calls.  A call that
\* waits for its reply on a session that is no longer active, with no
\* response in its channel or on the way into it, leaves the wait only
\* because its own context completed; a handler's call, whose context is
\* shielded, stays in the wait, registered, with its request counted in
\* inFlyRequest.
C37_PendingCallOutlivesSession ==
    /\ [][\A t \in {"k1", "r2"} :
            (/\ th[t].pc = "call_wait" /\ ~IsActiveSession(th[t].sid)
             /\ respChan[th[t].sid][th[t].fid] = <<>>
             /\ \A r \in Receivers : ~(th[r].pc = "rr_send" /\ th[r].sid = th[t].sid
                                       /\ th[r].fid = th[t].fid)
             /\ th'[t] # th[t] /\ th'[t].rctx = th[t].rctx)
                => th[t].ctx /\ th'[t].pc = "call_remove" /\ th'[t].res = "ctx.Err"]_vars
    /\ [](\A t \in Receivers :
            (th[t].pc = "call_wait" /\ th[t].h = "running")
                => /\ inFlyRequest > 0
                   /\ th[t].fid \in reqID2respChan[th[t].sid]
                   /\ ~th[t].ctx)

\* C37 witness: the handler's call waits on a closed session with an empty
\* reply channel, after the request's own context was cancelled.
C37_Witness ==
    /\ th["r2"].pc = "call_wait" /\ th["r2"].h = "running"
    /\ IsClosedSession(th["r2"].sid)
    /\ respChan[th["r2"].sid][th["r2"].fid] = <<>>
    /\ th["r2"].rctx = "context canceled"
    /\ th["r1"].pc = "idle"

\* ---- specification: the heartbeat over streamable HTTP -------------------------
\* One session is created by a POST and completes the handshake; a GET may
\* open its outbox; time passes, the heartbeat sweeps with real probes, and
\* shutdown may begin.
probeStep(t) ==
    /\ UNCHANGED <<histVars, shutVars>>
    /\ \/ HeartbeatExpiry(t) \/ HeartbeatProbe(t) \/ HeartbeatClose(t)
       \/ CloseLock(t) \/ StateClose(t) \/ CloseStore(t)

NextProbe ==
    \/ \E t \in Sweepers : probeStep(t)
    \/ /\ UNCHANGED <<histVars, shutVars>>
       /\ \/ NewServer
          \/ Tick
          \/ side = "server" /\ CreateSessionUpTo(1)
          \/ ShutdownBegin
          \/ \E t \in Sweepers : Heartbeat(t)
          \/ \E s \in created, f \in {<<1, Initialize>>, <<0, NotificationInitialized>>} :
                receive("r1", s, f[1], f[2])
          \/ receiveGate("r1") \/ receiveRequest("r1") \/ readReply("r1")
          \/ receiveNotify("r1") \/ notifyDispatch("r1")
          \/ \E s \in created : OpenMessageQueueForSend("p1", s)
          \/ OpenLock("p1") \/ openMessageQueueForSend("p1")
          \/ Return("r1")

\* The heartbeat goroutine is scheduled.
SpecProbe == Init /\ [][NextProbe]_vars /\ \A t \in Sweepers : WF_vars(probeStep(t))

\* C38: a probe made outside shutdown on a session whose outbox was never
\* opened fails (the ping is refused with ErrQueueNotOpened), three such
\* probes send the sweep to CloseSession, and the sweep that probes such a
\* session ends with the session closed unless shutdown begins or a GET
\* opens the outbox in the meantime; readiness and activity play no part.
C38_UnopenedOutboxFailsProbe ==
    /\ [][\A t \in Sweepers :
            (/\ th[t].pc = "hb_probe" /\ th'[t] # th[t]
             /\ ~inShutdown /\ ~sendChan[th[t].sid].open)
                => /\ th'[t].tries = Append(th[t].tries, FALSE)
                   /\ th'[t].pc = IF Len(th[t].tries) = DetectionTries - 1
                                  THEN "hb_close" ELSE "hb_probe"]_vars
    /\ \A t \in Sweepers, s \in SessionIDs :
            (th[t].pc = "hb_probe" /\ th[t].sid = s)
                ~> (~IsActiveSession(s) \/ inShutdown \/ sendChan[s].open)

\* C38 witness: a ready session, active at the present time, was closed by
\* the sweep after three failed probes on its unopened outbox.
C38_Witness ==
    \E s \in created :
        /\ ready[s] /\ lastActiveAt[s] = clock /\ clock > 0
        /\ ~sendChan[s].open /\ ~inShutdown
        /\ IsClosedSession(s)
        /\ th["h1"].sid = s /\ th["h1"].tries = <<FALSE, FALSE, FALSE>>

\* ---- specification: the outbox with scheduled closer and producers ------------
\* The operations of the outbox as above; the goroutines that close a
\* session and that enqueue are scheduled, and a context that can complete
\* does.  A GET that opens the outbox completes; nothing makes a consumer
\* dequeue.
closeStep(t) ==
    /\ UNCHANGED <<histVars, shutVars>>
    /\ (CloseLock(t) \/ StateClose(t) \/ CloseStore(t))

enqueueStep(t) ==
    /\ UNCHANGED <<histVars, shutVars>>
    /\ (enqueueMessage(t) \/ enqueueSend(t) \/ enqueueCtxDone(t))

SpecOutboxLive ==
    /\ Init /\ [][NextOutbox]_vars
    /\ WF_vars(closeStep("c1"))
    /\ \A t \in Producers : WF_vars(enqueueStep(t))
    /\ \A t \in Consumers : WF_vars(openStep(t))

\* C39: a CloseSession that has taken the session out of the active map
\* goes on to return, whatever enqueue is blocked on the session's outbox.
C39_CloseSessionReturns ==
    (th["c1"].pc \in {"cs_lock", "cs_close", "cs_store"}) ~> (th["c1"].pc = "cs_done")

\* ---- the SSE client transport: Start, the stream goroutine, Close -------------
\* ConnectOutcomes: client.Do fails (0), or answers with a status.
ConnectOutcomes == {0, 200, 500}

\* Start: errChan := make(chan error, 1); go func() {...}(); then the select.
sseStart(t, g) ==
    /\ th[t].pc = "idle" /\ th[g].pc = "idle"
    /\ th' = [th EXCEPT ![t] = [@ EXCEPT !.pc = "start_select"],
                        ![g] = [@ EXCEPT !.pc = "sse_connect"]]
    /\ UNCHANGED <<tctx, sse>>

\* The goroutine: client.Do(req) with t.ctx.  An error or a status other than
\* 200 is sent to errChan and the goroutine returns; 200 enters readSSE.
sseConnect(g, outcome) ==
    /\ th[g].pc = "sse_connect"
    /\ tctx => outcome = 0
    /\ IF outcome = 200
       THEN /\ th' = [th EXCEPT ![g].pc = "sse_read"]
            /\ sse' = sse
       ELSE /\ th' = [th EXCEPT ![g].pc = "sse_exited"]
            /\ sse' = [sse EXCEPT !.errChan = Append(@, outcome)]
    /\ UNCHANGED tctx

\* The events a server can put on the stream: an endpoint event with a URL
\* that parses or with one that does not, and a message event.
SSEEvents == {"endpoint", "bad endpoint", "message"}

\* readSSE reads one event (th[g].tries keeps the events read, up to
\* MaxFires) and calls handleSSEEvent.  An endpoint event stores the endpoint
\* and closes endpointChan; closing it a second time panics, and the panic
\* unwinds the goroutine, whose deferred pkg.Recover swallows it.  An
\* endpoint that does not parse is logged; a message goes to the receiver.
handleSSEEvent(g, event) ==
    /\ th[g].pc = "sse_read" /\ ~tctx
    /\ Len(th[g].tries) < MaxFires
    /\ IF event = "endpoint" /\ closePanics(sse.endpointChan)
       THEN /\ th' = [th EXCEPT ![g] = [@ EXCEPT !.pc = "sse_exited", !.res = "recovered",
                                                  !.tries = Append(@, event)]]
            /\ sse' = sse
       ELSE /\ th' = [th EXCEPT ![g].tries = Append(@, event)]
            /\ sse' = IF event = "endpoint" THEN [sse EXCEPT !.endpointChan = "closed"]
                      ELSE sse
    /\ UNCHANGED tctx

\* readSSE returns (end of the stream, or a read error, which a cancelled
\* t.ctx produces); the goroutine then closes sseConnectClose.
readSSEReturns(g) ==
    /\ th[g].pc = "sse_read"
    /\ th' = [th EXCEPT ![g].pc = "sse_exited"]
    /\ sse' = [sse EXCEPT !.sseConnectClose = "closed"]
    /\ UNCHANGED tctx

\* Start's select: the endpoint arrived, an error arrived, or ten seconds
\* passed.
startSelect(t, case) ==
    /\ th[t].pc = "start_select"
    /\ case = "endpoint" => sse.endpointChan = "closed"
    /\ case = "error" => sse.errChan # <<>>
    /\ th' = [th EXCEPT ![t] = [@ EXCEPT !.pc = "start_done",
                    !.res = IF case = "endpoint" THEN "nil" ELSE case]]
    /\ sse' = IF case = "error" THEN [sse EXCEPT !.errChan = Tail(@)] ELSE sse
    /\ UNCHANGED tctx

\* Close: t.cancel(), then the receive from sseConnectClose ...
sseClose(t, starter) ==
    /\ th[t].pc = "idle" /\ th[starter].pc # "idle"
    /\ tctx' = TRUE
    /\ th' = [th EXCEPT ![t].pc = "close_wait"]
    /\ UNCHANGED sse

\* ... which returns once the channel is closed.
sseCloseReturns(t) ==
    /\ th[t].pc = "close_wait"
    /\ sse.sseConnectClose = "closed"
    /\ th' = [th EXCEPT ![t] = [@ EXCEPT !.pc = "close_done", !.res = "nil"]]
    /\ UNCHANGED <<tctx, sse>>

\* ---- specification: the SSE client transport ----------------------------------
\* Start is called once ("k1"), its goroutine ("g1") connects and reads, and
\* Close is called ("c1") at any time after Start was called.
sseStep(t) ==
    /\ UNCHANGED <<activeSessions, closedSessions, created, outVars, dispVars, callVars,
                   timeVars, drainVars, regVars, enqueued, dequeued, stopVars, clientSessionID,
                   httpSvr, listener, activeConns, userDone, inFlySend>>
    /\ \/ \E outcome \in ConnectOutcomes : sseConnect(t, outcome)
       \/ \E event \in SSEEvents : handleSSEEvent(t, event)
       \/ readSSEReturns(t)
       \/ \E case \in {"endpoint", "error", "timeout"} : startSelect(t, case)
       \/ sseCloseReturns(t)

NextSseClient ==
    \/ \E t \in {"k1", "g1", "c1"} : sseStep(t)
    \/ /\ UNCHANGED <<activeSessions, closedSessions, created, outVars, dispVars, callVars,
                      timeVars, drainVars, regVars, enqueued, dequeued, stopVars, clientSessionID,
                      httpSvr, listener, activeConns, userDone, inFlySend>>
       /\ \/ sseStart("k1", "g1")
          \/ sseClose("c1", "k1")

\* Every goroutine is scheduled.
SpecSseClient ==
    Init /\ [][NextSseClient]_vars /\ \A t \in {"k1", "g1", "c1"} : WF_vars(sseStep(t))

\* C40: a Close that was called after Start returns.
C40_CloseReturns ==
    (th["c1"].pc = "close_wait") ~> (th["c1"].pc = "close_done")

====
